---- MODULE Spec2Model ----
(***************************************************************************)
(* A model of reliudp: a reliable-message protocol over UDP.               *)
(*                                                                         *)
(* Time is counted in milliseconds.  Instants are integers; an absent      *)
(* Option<Instant> is None.  The fragment combiner of src/ counts in       *)
(* "iterations"; it is handed the socket's cached_now, so its iteration    *)
(* numbers are the same integers.                                          *)
(***************************************************************************)
EXTENDS Integers, Sequences, FiniteSets, TLC

None == 0 - 1

(***************************************************************************)
(* Bounds of the model.                                                    *)
(***************************************************************************)
\* payload bytes carried by one fragment (MAX_FRAGMENT_MESSAGE_SIZE, scaled)
ChunkSize == 1
\* the datagrams one tick reads from the UDP socket, at most
MaxRecv == 2
\* the messages a socket sends, at most
MaxMessages == 1
\* the datagrams the network loses, at most, where it delivers the others
MaxLost == 2
\* the ticks of the handshake specification, at most
MaxTicks == 4
\* the ticks of the specification of the repeated fragment, at most
DupTicks == 23
\* the ticks of the specification of the acknowledgements, at most
AckTicks == 4

StrangerTicks == 3

EventMessages == 2

EventTicks == 3

MetaTicks == 5

ExpiryDelay == 300

ExpiryTicks == 6

SeqMessages == 3

SeqTicks == 2

\* FragSpec: the fragments of a small message, and the ticks of each peer
FragSmall == 3

FragTicks == 2

\* BitmapSpec: below this frag_total every set of frag ids is an input
AckSmall == 3
\* the longest payload of the packets given to the encoder
PayloadLen == 3
\* CombinerSpec: the ticks of the combiner, in multiples of ACK_SEND_INTERVAL
CombinerTicks == 4
\* TrackerSpec: the instants of the tracker, in multiples of TrackerStep,
\* before and after the one long wait
TrackerTicks == 6
\* TrackerSpec: the short wait between two calls of the tracker, in ms
TrackerStep == 4
\* BeatSpec: the instants of the ticks are multiples of BeatStep ms, up to
\* BeatTicks of them
BeatStep == 1000

BeatTicks == 12
\* PingSpec: the seconds the ping handler is followed for
PingSecs == 12

(***************************************************************************)
(* Program constants.                                                      *)
(***************************************************************************)
ACK_SEND_INTERVAL == 50
SEQ_DATA_CLEANUP_DELAY == 5000
MAX_FRAGMENTS_IN_MESSAGE == 256
STALE_FORGETTABLE == 30
STALE_KEY == 3000
STALE_COMPLETE_ACKS == 10
DEFAULT_TIMEOUT_DELAY == 10000
DEFAULT_HEARTBEAT_DELAY == 1000
SYN_RESEND_DELAY == 3000
FINISHED_OLD_SECS == 10
PING_LOST_SECS == 5
PING_MAX_MS == 4999
\* the number of values of a u8
U8 == 256

(***************************************************************************)
(* Helpers.                                                                *)
(***************************************************************************)
Pow2(n) == 2 ^ n

\* bits & (1 << bit_index) > 0
BitSet(bits, bit_index) == (bits \div Pow2(bit_index)) % 2 = 1

\* bits | (1 << bit_index)
OrBit(bits, bit_index) == IF BitSet(bits, bit_index) THEN bits ELSE bits + Pow2(bit_index)

\* F applied to the value of e (e is evaluated once, before F)
With(e, F(_)) == CHOOSE r \in {F(v) : v \in {e}} : TRUE

Min(S) == CHOOSE x \in S : \A y \in S : x <= y

Max(S) == CHOOSE x \in S : \A y \in S : x >= y

\* the elements of a finite set of integers, ascending
SortedSeq(S) ==
    IF S = {} THEN <<>>
    ELSE LET all(lo, hi) == SelectSeq([k \in 1..(hi - lo + 1) |-> lo + k - 1],
                                      LAMBDA x : x \in S)
         IN With(Min(S), LAMBDA lo : With(Max(S), LAMBDA hi : all(lo, hi)))

\* the halves of a sequence of two elements or more
FirstHalf(seq) == SubSeq(seq, 1, Len(seq) \div 2)

SecondHalf(seq) == SubSeq(seq, Len(seq) \div 2 + 1, Len(seq))

RECURSIVE Concat(_)
Concat(ss) ==
    IF ss = <<>> THEN <<>>
    ELSE IF Len(ss) = 1 THEN ss[1]
    ELSE With(Concat(FirstHalf(ss)), LAMBDA a : a \o Concat(SecondHalf(ss)))

Range(f) == {f[x] : x \in DOMAIN f}

\* a map with key k set to v (insert or overwrite)
MapPut(m, k, v) == [x \in (DOMAIN m) \cup {k} |-> IF x = k THEN v ELSE m[x]]

MapRemove(m, K) == [x \in (DOMAIN m) \ K |-> m[x]]

EmptyMap == [x \in {} |-> None]

(***************************************************************************)
(* ack.rs                                                                  *)
(***************************************************************************)
ack_size_from_frag_total(frag_total) ==
    IF frag_total % 8 = 0 THEN frag_total \div 8 ELSE frag_total \div 8 + 1

\* vec!(0xFF; size)
create_complete(frag_total) == [i \in 1..ack_size_from_frag_total(frag_total) |-> 255]

\* ack[byte_index] panics when byte_index is outside the vector
create_from_frag_ids_panics(ids, frag_total) ==
    \E frag_id \in ids : frag_id \div 8 >= ack_size_from_frag_total(frag_total)

RECURSIVE OrBits(_, _)
OrBits(byte, bitset) ==
    IF bitset = {} THEN byte
    ELSE With(Min(bitset),
              LAMBDA b : With(OrBit(byte, b), LAMBDA v : OrBits(v, bitset \ {b})))

\* the bitmap built from the frag ids (defined when it does not panic)
create_from_frag_ids(ids, frag_total) ==
    [i \in 1..ack_size_from_frag_total(frag_total) |->
        OrBits(0, {frag_id % 8 : frag_id \in {f \in ids : f \div 8 = i - 1}})]

\* the frag ids <= frag_total whose bit is clear in a byte the ack holds
frag_ids_missing_from_ack(ack_bytes, frag_total) ==
    {v \in 0..frag_total :
        /\ v \div 8 + 1 \in DOMAIN ack_bytes
        /\ ~BitSet(ack_bytes[v \div 8 + 1], v % 8)}

\* the frag ids <= frag_total whose bit is set in a byte the ack holds
frag_ids_received_from_ack(ack_bytes, frag_total) ==
    {v \in 0..frag_total :
        /\ v \div 8 + 1 \in DOMAIN ack_bytes
        /\ BitSet(ack_bytes[v \div 8 + 1], v % 8)}

(***************************************************************************)
(* fragment.rs, fragment_generator.rs                                      *)
(***************************************************************************)
FragmentMetas == {"Forgettable", "KeyExpirable", "Key"}

Fragment(seq_id, frag_id, frag_total, frag_meta, data) ==
    [seq_id |-> seq_id, frag_id |-> frag_id, frag_total |-> frag_total,
     frag_meta |-> frag_meta, data |-> data]

fragments_count(data) ==
    IF Len(data) % ChunkSize /= 0 THEN Len(data) \div ChunkSize + 1
    ELSE Len(data) \div ChunkSize

\* Err(()) of build_fragments_from_bytes
build_fragments_fails(data) == fragments_count(data) > MAX_FRAGMENTS_IN_MESSAGE

\* data.chunks(MAX_FRAGMENT_MESSAGE_SIZE), 0-based index i
Chunk(data, i) ==
    SubSeq(data, i * ChunkSize + 1,
           IF (i + 1) * ChunkSize < Len(data) THEN (i + 1) * ChunkSize ELSE Len(data))

\* FragmentGenerator::next yielding the fragment current_frag: next_frag += 1
\* on a u8 overflows; a build with overflow checks panics there, a build
\* without them wraps and yields the fragment
next_frag_overflows(current_frag) == current_frag + 1 >= U8

\* the fragments the generator yields, in order (a sequence), and frag_total,
\* in a build without overflow checks
build_fragments_from_bytes(data, seq_id, frag_meta) ==
    LET n == fragments_count(data)
        frag_total == n - 1
    IN [frag_total |-> frag_total,
        fragments |-> [k \in 1..n |->
            Fragment(seq_id, k - 1, frag_total, frag_meta, Chunk(data, k - 1))]]

\* Outcome of build_data_from_fragments on the values of a fragment map:
\* "err" (a frag_id outside the vector), "panic" (an assertion fails) or "ok".
build_data_outcome(fragments) ==
    LET n == Cardinality(DOMAIN fragments)
    IN IF \E k \in DOMAIN fragments : fragments[k].frag_id >= n THEN "err"
       ELSE IF fragments[0].frag_total + 1 /= n THEN "panic"
       ELSE "ok"

build_data_from_fragments(fragments) ==
    LET n == Cardinality(DOMAIN fragments)
    IN Concat([k \in 1..n |-> fragments[k - 1].data])

(***************************************************************************)
(* fragment_combiner.rs                                                    *)
(***************************************************************************)
Incomplete(fragments) == [kind |-> "Incomplete", fragments |-> fragments]

\* FragmentSetState::Complete(iteration of completion, frag_total)
Complete(iteration_n, frag_total) ==
    [kind |-> "Complete", at |-> iteration_n, frag_total |-> frag_total]

with_capacity(seq_id, iteration_n, frag_meta) ==
    [seq_id |-> seq_id,
     fragment_meta |-> frag_meta,
     state |-> Incomplete(EmptyMap),
     last_sent_ack_iteration |-> None,
     last_received_iteration |-> iteration_n,
     acks_sent_count |-> 0]

is_incomplete(fs) == fs.state.kind = "Incomplete"

\* should_send_ack that does not look at the meta
should_send_ack_always(fs) == TRUE

\* FragmentSet::should_send_ack
should_send_ack(fs) == fs.fragment_meta /= "Forgettable"

is_stale(fs, iteration_n) ==
    IF is_incomplete(fs)
    THEN IF fs.fragment_meta = "Forgettable"
         THEN iteration_n >= fs.last_received_iteration + STALE_FORGETTABLE
         ELSE iteration_n >= fs.last_received_iteration + STALE_KEY
    ELSE fs.fragment_meta = "Forgettable" \/ fs.acks_sent_count >= STALE_COMPLETE_ACKS

\* FragmentSet::complete: the state becomes Complete(iteration_n, fragments.len() as u8)
complete(fs, iteration_n) ==
    [fs EXCEPT !.state = Complete(iteration_n, Cardinality(DOMAIN fs.state.fragments) % 256),
               !.last_sent_ack_iteration = None,
               !.acks_sent_count = 0]

send_ack(fs, iteration_n) ==
    [fs EXCEPT !.last_sent_ack_iteration = iteration_n,
               !.acks_sent_count = @ + 1]

\* The frag_total values fragments.values().next() may yield (the map's
\* iteration order is arbitrary).
FragTotalsOf(fs) ==
    IF is_incomplete(fs) THEN {f.frag_total : f \in Range(fs.state.fragments)} ELSE {0}

\* frag_total: the value read from the first fragment of the map
generate_ack_panics(fs, frag_total) ==
    /\ is_incomplete(fs)
    /\ \/ DOMAIN fs.state.fragments = {}
       \/ create_from_frag_ids_panics(DOMAIN fs.state.fragments, frag_total)

generate_ack(fs, frag_total) ==
    IF is_incomplete(fs)
    THEN create_from_frag_ids(DOMAIN fs.state.fragments, frag_total)
    ELSE create_complete(fs.state.frag_total)

FragmentCombinerNew == [pending_fragments |-> EmptyMap, out_messages |-> <<>>]

all_equal_frag_total(fragments) ==
    \A f, g \in Range(fragments) : f.frag_total = g.frag_total

\* transform_message with the set fs (already holding the new fragment) of
\* seq_id, and push's removal of the set when it fails.
transform_message(c, fs, iteration_n) ==
    LET fragments == fs.state.fragments
        done == complete(fs, iteration_n)
    IN IF ~all_equal_frag_total(fragments) \/ build_data_outcome(fragments) = "err"
       THEN [combiner |-> [c EXCEPT !.pending_fragments = MapRemove(@, {fs.seq_id})],
             panic |-> FALSE]
       ELSE IF build_data_outcome(fragments) = "panic"
       THEN [combiner |-> c, panic |-> TRUE]
       ELSE [combiner |->
                [c EXCEPT !.pending_fragments = MapPut(@, fs.seq_id, done),
                          !.out_messages = Append(@, [seq_id |-> fs.seq_id,
                                data |-> build_data_from_fragments(fragments)])],
             panic |-> FALSE]

\* a mutant of push: a fragment for a Complete set starts the set again
push_reviving(c, fragment, iteration_n) ==
    LET seq_id == fragment.seq_id
        inserted(fs2) ==
            IF Cardinality(DOMAIN fs2.state.fragments) >= fragment.frag_total + 1
            THEN transform_message(c, fs2, iteration_n)
            ELSE [combiner |-> [c EXCEPT !.pending_fragments = MapPut(@, seq_id, fs2)],
                  panic |-> FALSE]
        entry(fs0) ==
            With([fs0 EXCEPT !.state.fragments = MapPut(@, fragment.frag_id, fragment)],
                 inserted)
    IN With(IF seq_id \in DOMAIN c.pending_fragments
               /\ is_incomplete(c.pending_fragments[seq_id])
            THEN [c.pending_fragments[seq_id] EXCEPT !.last_received_iteration = iteration_n,
                                                     !.acks_sent_count = 0]
            ELSE with_capacity(seq_id, iteration_n, fragment.frag_meta),
            entry)

push(c, fragment, iteration_n) ==
    LET seq_id == fragment.seq_id
        inserted(fs2) ==
            IF Cardinality(DOMAIN fs2.state.fragments) >= fragment.frag_total + 1
            THEN transform_message(c, fs2, iteration_n)
            ELSE [combiner |-> [c EXCEPT !.pending_fragments = MapPut(@, seq_id, fs2)],
                  panic |-> FALSE]
        received(fs1) ==
            IF is_incomplete(fs1)
            THEN With([fs1 EXCEPT !.state.fragments = MapPut(@, fragment.frag_id, fragment)],
                      inserted)
            ELSE [combiner |-> [c EXCEPT !.pending_fragments = MapPut(@, seq_id, fs1)],
                  panic |-> FALSE]
        entry(fs0) ==
            With([fs0 EXCEPT !.last_received_iteration = iteration_n,
                             !.acks_sent_count = IF is_incomplete(fs0) THEN 0 ELSE @],
                 received)
    IN With(IF seq_id \in DOMAIN c.pending_fragments
            THEN c.pending_fragments[seq_id]
            ELSE with_capacity(seq_id, iteration_n, fragment.frag_meta),
            entry)

should_send(fs, iteration_n) ==
    /\ should_send_ack(fs)
    /\ \/ fs.last_sent_ack_iteration = None
       \/ iteration_n - fs.last_sent_ack_iteration >= ACK_SEND_INTERVAL

\* What fragments.values().next() may yield for every pending set.
CombinerPicks(c) ==
    {p \in [DOMAIN c.pending_fragments ->
                UNION {FragTotalsOf(c.pending_fragments[s]) : s \in DOMAIN c.pending_fragments}] :
        \A s \in DOMAIN c.pending_fragments : p[s] \in FragTotalsOf(c.pending_fragments[s])}

\* FragmentCombiner::tick; pick[s] is the frag_total generate_ack reads for set s
combiner_tick(c, iteration_n, pick) ==
    LET ids == DOMAIN c.pending_fragments
        visit(stale, sending, order) ==
            [combiner |-> [c EXCEPT !.pending_fragments =
                            [s \in ids \ stale |->
                                IF s \in sending
                                THEN send_ack(c.pending_fragments[s], iteration_n)
                                ELSE c.pending_fragments[s]]],
             acks |-> [k \in 1..Len(order) |->
                        [seq_id |-> order[k],
                         ack |-> generate_ack(c.pending_fragments[order[k]], pick[order[k]])]],
             panic |-> \E s \in sending :
                          generate_ack_panics(c.pending_fragments[s], pick[s])]
        acked(stale) ==
            With({s \in ids \ stale : should_send(c.pending_fragments[s], iteration_n)},
                 LAMBDA sending : visit(stale, sending, SortedSeq(sending)))
    IN With({s \in ids : is_stale(c.pending_fragments[s], iteration_n)}, acked)

(***************************************************************************)
(* rudp.rs: message types, priorities, statuses, the socket wrapper        *)
(***************************************************************************)
\* SocketEvent
Data(d) == [kind |-> "Data", data |-> d]

ConnectedEvent == [kind |-> "Connected"]

Aborted == [kind |-> "Aborted"]

Ended == [kind |-> "Ended"]

Timeout == [kind |-> "Timeout"]

Forgettable == [kind |-> "Forgettable"]

KeyExpirableMessage(d) == [kind |-> "KeyExpirableMessage", d |-> d]

KeyMessage == [kind |-> "KeyMessage"]

has_ack(message_type) == message_type.kind \in {"KeyExpirableMessage", "KeyMessage"}

resend_delay(message_priority) ==
    CASE message_priority = "Highest" -> 20
      [] message_priority = "VeryHigh" -> 40
      [] message_priority = "High" -> 80
      [] message_priority = "Normal" -> 160
      [] message_priority = "Low" -> 320
      [] message_priority = "VeryLow" -> 640
      [] message_priority = "Lowest" -> 1500

SynSent(t) == [kind |-> "SynSent", t |-> t]

SynReceived == [kind |-> "SynReceived"]

Connected == [kind |-> "Connected"]

TimeoutError(t) == [kind |-> "TimeoutError", t |-> t]

TerminateSent(t) == [kind |-> "TerminateSent", t |-> t]

TerminateReceived(t) == [kind |-> "TerminateReceived", t |-> t]

is_connected(status) == status = Connected

is_finished(status) == status.kind \in {"TimeoutError", "TerminateSent", "TerminateReceived"}

\* SocketStatus::event: the events (none or one) a new status queues
status_event(status) ==
    CASE status.kind = "TimeoutError" -> <<Timeout>>
      [] status.kind = "TerminateSent" -> <<Ended>>
      [] status.kind = "Connected" -> <<ConnectedEvent>>
      [] OTHER -> <<>>

\* (now - t).as_secs() >= 10
is_finished_and_old(status, now) ==
    is_finished(status) /\ (now - status.t) \div 1000 >= FINISHED_OLD_SECS

\* UdpSocketWrapper::send_udp_packet: what reaches the wire
\* send_udp_packet without the test of the status
send_unchecked(status, packets) == packets

\* UdpSocketWrapper::send_udp_packet: what reaches the wire
send_udp_packet(status, packets) == IF ~is_finished(status) THEN packets ELSE <<>>

(***************************************************************************)
(* Packets                                                                 *)
(***************************************************************************)
PFragment(f) == [kind |-> "Fragment", f |-> f]

PAck(seq_id, data) == [kind |-> "Ack", seq_id |-> seq_id, data |-> data]

PSyn == [kind |-> "Syn"]

PSynAck == [kind |-> "SynAck"]

PHeartbeat == [kind |-> "Heartbeat"]

PEnd(last_seq_id) == [kind |-> "End", seq_id |-> last_seq_id]

PAbort(last_seq_id) == [kind |-> "Abort", seq_id |-> last_seq_id]

\* a datagram that does not decode (it reaches the handler as Raw)
PRaw == [kind |-> "Raw"]

(***************************************************************************)
(* udp_packet.rs: the bytes of a packet.  A datagram is a sequence of      *)
(* bytes, byte i of the code's buffer being element i + 1.                 *)
(***************************************************************************)
CRC32_SIZE == 4

COMMON_HEADER_SIZE == 6

FRAG_ADD_HEADER_SIZE == 1

PACKET_DATA_START_BYTE == CRC32_SIZE + COMMON_HEADER_SIZE

\* the polynomial 0xEDB88320 of checksum_ieee, as the set of its set bits;
\* the 32-bit register of the checksum is held the same way
CRC32_POLY == {5, 8, 9, 15, 19, 20, 21, 23, 24, 26, 27, 29, 30, 31}

\* one bit of the checksum: crc = (crc >> 1) ^ (POLY if the low bit was set)
crc_shift(crc) ==
    IF 0 \in crc
    THEN {i \in 0..31 : (i + 1 \in crc) /= (i \in CRC32_POLY)}
    ELSE {i \in 0..30 : i + 1 \in crc}

RECURSIVE crc_shifts(_, _)
crc_shifts(crc, n) ==
    LET more(c) == crc_shifts(c, n - 1)
    IN IF n = 0 THEN crc ELSE With(crc_shift(crc), more)

\* the table of the checksum: the register after the 8 bits of byte b
CRC32_TABLE == [b \in 0..(U8 - 1) |-> crc_shifts({i \in 0..7 : BitSet(b, i)}, 8)]

\* the byte made of bits lo..lo+7 of a register
crc_byte(crc, lo) ==
    LET b(k) == IF lo + k \in crc THEN Pow2(k) ELSE 0
    IN b(0) + b(1) + b(2) + b(3) + b(4) + b(5) + b(6) + b(7)

\* one byte of the checksum: crc = TABLE[(crc ^ byte) & 0xFF] ^ (crc >> 8)
crc_update(crc, byte) ==
    LET shifted(entry) == {i \in 0..31 : (i + 8 \in crc) /= (i \in entry)}
    IN With(CRC32_TABLE[crc_byte({i \in 0..7 : (i \in crc) /= BitSet(byte, i)}, 0)],
            shifted)

RECURSIVE crc_fold(_, _, _)
crc_fold(crc, bytes, k) ==
    LET more(c) == crc_fold(c, bytes, k + 1)
    IN IF k > Len(bytes) THEN crc ELSE With(crc_update(crc, bytes[k]), more)

\* crc::crc32::checksum_ieee, as the 4 bytes BigEndian::write_u32 makes of it
crc32_check(bytes) ==
    LET bytes_of(crc) == <<crc_byte(crc, 24), crc_byte(crc, 16),
                           crc_byte(crc, 8), crc_byte(crc, 0)>>
    IN With({i \in 0..31 : i \notin crc_fold(0..31, bytes, 1)}, bytes_of)

\* BigEndian::write_u32 of a seq_id
write_u32(n) ==
    <<(n \div Pow2(24)) % U8, (n \div Pow2(16)) % U8, (n \div Pow2(8)) % U8, n % U8>>

\* BigEndian::read_u32 of the 4 bytes of a seq_id
read_u32(bytes) == ((bytes[1] * U8 + bytes[2]) * U8 + bytes[3]) * U8 + bytes[4]

\* frag_meta as u8 (repr(u8) of FragmentMeta)
frag_meta_as_u8(frag_meta) ==
    CASE frag_meta = "Forgettable" -> 0
      [] frag_meta = "KeyExpirable" -> 1
      [] frag_meta = "Key" -> 2

\* Packet::udp_packet_size
udp_packet_size(p) ==
    CRC32_SIZE + COMMON_HEADER_SIZE
        + (CASE p.kind = "Fragment" -> FRAG_ADD_HEADER_SIZE + Len(p.f.data)
             [] p.kind = "Ack" -> Len(p.data)
             [] OTHER -> 0)

\* a mutant of header: a Heartbeat written with the pair of End
header_heartbeat_as_end(p) ==
    CASE p.kind = "Fragment" -> <<p.f.seq_id, p.f.frag_id, p.f.frag_total>>
      [] p.kind = "Ack" -> <<p.seq_id, 255, 0>>
      [] p.kind = "Syn" -> <<0, 255, 1>>
      [] p.kind = "SynAck" -> <<0, 255, 2>>
      [] p.kind = "End" -> <<p.seq_id, 255, 3>>
      [] p.kind = "Abort" -> <<p.seq_id, 255, 4>>
      [] p.kind = "Heartbeat" -> <<0, 255, 3>>

\* Packet::header: <<seq_id, frag_id, frag_total>>
header(p) ==
    CASE p.kind = "Fragment" -> <<p.f.seq_id, p.f.frag_id, p.f.frag_total>>
      [] p.kind = "Ack" -> <<p.seq_id, 255, 0>>
      [] p.kind = "Syn" -> <<0, 255, 1>>
      [] p.kind = "SynAck" -> <<0, 255, 2>>
      [] p.kind = "End" -> <<p.seq_id, 255, 3>>
      [] p.kind = "Abort" -> <<p.seq_id, 255, 4>>
      [] p.kind = "Heartbeat" -> <<0, 255, 5>>

\* Packet::write_payload into the zeroed bytes after the header
write_payload(p) ==
    [k \in 1..(udp_packet_size(p) - PACKET_DATA_START_BYTE) |->
        CASE p.kind = "Fragment" ->
                 IF k = 1 THEN frag_meta_as_u8(p.f.frag_meta) ELSE p.f.data[k - 1]
          [] p.kind = "Ack" -> p.data[k]
          [] OTHER -> 0]

\* From<&Packet> for UdpPacket: the datagram of packet p
UdpPacketFrom(p) ==
    LET with_crc(bytes) == crc32_check(bytes) \o bytes
    IN With(write_u32(header(p)[1]) \o <<header(p)[2], header(p)[3]>> \o write_payload(p),
            with_crc)

\* the values of UdpPacketError, and the two arms of a Result
NotBigEnough == [kind |-> "NotBigEnough"]

InvalidCrc == [kind |-> "InvalidCrc"]

InvalidFragLayout(frag_id, frag_total) ==
    [kind |-> "InvalidFragLayout", frag_id |-> frag_id, frag_total |-> frag_total]

InvalidFragMeta == [kind |-> "InvalidFragMeta"]

Ok(v) == [ok |-> TRUE, v |-> v]

Err(e) == [ok |-> FALSE, err |-> e]

\* UdpPacket::check_header_crc
check_header_crc(buffer) ==
    IF Len(buffer) < 10 THEN Err(NotBigEnough)
    ELSE IF crc32_check(SubSeq(buffer, 5, Len(buffer))) /= SubSeq(buffer, 1, 4)
    THEN Err(InvalidCrc)
    ELSE Ok(<<>>)

\* the match of compute_packet_meta on (frag_id, frag_total)
packet_meta_of_layout(buffer) ==
    LET frag_total == buffer[10]
        frag_id == buffer[9]
        seq_id == read_u32(SubSeq(buffer, 5, 8))
    IN CASE frag_id = 255 /\ frag_total = 0 -> Ok([kind |-> "Ack", seq_id |-> seq_id])
         [] frag_id = 255 /\ frag_total = 1 -> Ok([kind |-> "Syn"])
         [] frag_id = 255 /\ frag_total = 2 -> Ok([kind |-> "SynAck"])
         [] frag_id = 255 /\ frag_total = 3 -> Ok([kind |-> "End", seq_id |-> seq_id])
         [] frag_id = 255 /\ frag_total = 4 -> Ok([kind |-> "Abort", seq_id |-> seq_id])
         [] frag_id = 255 /\ frag_total = 5 -> Ok([kind |-> "Heartbeat"])
         [] OTHER ->
              IF frag_id <= frag_total
              THEN IF Len(buffer) < 11 THEN Err(NotBigEnough)
                   ELSE IF buffer[11] = 0
                   THEN Ok([kind |-> "Fragment", seq_id |-> seq_id, frag_id |-> frag_id,
                            frag_total |-> frag_total, frag_meta |-> "Forgettable"])
                   ELSE IF buffer[11] = 1
                   THEN Ok([kind |-> "Fragment", seq_id |-> seq_id, frag_id |-> frag_id,
                            frag_total |-> frag_total, frag_meta |-> "KeyExpirable"])
                   ELSE IF buffer[11] = 2
                   THEN Ok([kind |-> "Fragment", seq_id |-> seq_id, frag_id |-> frag_id,
                            frag_total |-> frag_total, frag_meta |-> "Key"])
                   ELSE Err(InvalidFragMeta)
              ELSE Err(InvalidFragLayout(frag_id, frag_total))

\* a mutant of compute_packet_meta: the layout is matched before the checksum
compute_packet_meta_layout_first(buffer) ==
    LET checked(r) == IF r.ok \/ r.err.kind = "InvalidFragLayout" THEN r
                      ELSE IF check_header_crc(buffer).ok THEN r
                      ELSE check_header_crc(buffer)
    IN IF Len(buffer) < 10 THEN Err(NotBigEnough)
       ELSE With(packet_meta_of_layout(buffer), checked)

\* UdpPacket::compute_packet_meta (its second test of the length and of the
\* checksum repeats check_header_crc on the same bytes)
compute_packet_meta(buffer) ==
    LET checked(r) == IF ~r.ok THEN r ELSE packet_meta_of_layout(buffer)
    IN With(check_header_crc(buffer), checked)

\* PacketMeta::build_packet_with: data is the buffer without its first 10 bytes
build_packet_with(meta, data) ==
    CASE meta.kind = "Fragment" ->
             PFragment(Fragment(meta.seq_id, meta.frag_id, meta.frag_total,
                                meta.frag_meta, Tail(data)))
      [] meta.kind = "Ack" -> PAck(meta.seq_id, data)
      [] meta.kind = "Syn" -> PSyn
      [] meta.kind = "SynAck" -> PSynAck
      [] meta.kind = "Heartbeat" -> PHeartbeat
      [] meta.kind = "End" -> PEnd(meta.seq_id)
      [] meta.kind = "Abort" -> PAbort(meta.seq_id)

\* UdpPacket::compute_packet
compute_packet(buffer) ==
    LET built(m) == IF m.ok
                    THEN Ok(build_packet_with(m.v,
                             SubSeq(buffer, PACKET_DATA_START_BYTE + 1, Len(buffer))))
                    ELSE m
    IN With(compute_packet_meta(buffer), built)

(***************************************************************************)
(* sent_data_tracker.rs                                                    *)
(***************************************************************************)
Key == [kind |-> "Key"]

ExpirableKey(expiration) == [kind |-> "ExpirableKey", expiration |-> expiration]

\* the Some(..) cases of PacketExpiration::from_message_type
from_message_type(message_type, now) ==
    IF message_type.kind = "KeyExpirableMessage" THEN ExpirableKey(now + message_type.d)
    ELSE Key

\* FragmentMeta::from(Option<PacketExpiration>) composed with from_message_type
frag_meta_of_type(message_type) ==
    CASE message_type.kind = "Forgettable" -> "Forgettable"
      [] message_type.kind = "KeyMessage" -> "Key"
      [] message_type.kind = "KeyExpirableMessage" -> "KeyExpirable"

frag_meta_of_expiration(expiration_type) ==
    IF expiration_type.kind = "Key" THEN "Key" ELSE "KeyExpirable"

NoAck == [at |-> None, ack |-> <<>>]

NoUnanswered == <<None, None>>

SentDataSetNew(data, frag_total, now, expiration_type, message_priority) ==
    [data |-> data,
     frag_total |-> frag_total,
     expiration_type |-> expiration_type,
     last_received_ack |-> NoAck,
     last_sent_packet |-> now,
     unanswered_ack |-> NoUnanswered,
     complete_since |-> None,
     message_priority |-> message_priority]

\* is_expired that spares a set whose complete ack has been received
is_expired_unacked(set, now) ==
    /\ set.expiration_type.kind = "ExpirableKey" /\ now > set.expiration_type.expiration
    /\ set.complete_since = None

\* SentDataSet::is_expired
is_expired(set, now) ==
    set.expiration_type.kind = "ExpirableKey" /\ now > set.expiration_type.expiration

\* the frag ids resend_packets transmits
resend_frag_ids(set) ==
    IF set.last_received_ack.at /= None
    THEN frag_ids_missing_from_ack(set.last_received_ack.ack, set.frag_total)
    ELSE 0..set.frag_total

\* SentDataSet::resend_packets: the set afterwards, the packets handed to the
\* socket, and the instant of the complete ack (None when not complete)
resend_packets(set, seq_id, now) ==
    LET resent(built, ids) ==
            [set |-> [set EXCEPT !.unanswered_ack = NoUnanswered, !.last_sent_packet = now],
             packets |-> [k \in 1..Len(ids) |-> PFragment(built.fragments[ids[k] + 1])],
             complete |-> IF set.last_received_ack.at /= None /\ ids = <<>>
                          THEN set.last_received_ack.at ELSE None]
    IN With(build_fragments_from_bytes(set.data, seq_id,
                                       frag_meta_of_expiration(set.expiration_type)),
            LAMBDA built : With(SortedSeq(resend_frag_ids(set)),
                                LAMBDA ids : resent(built, ids)))

\* must_resend that waits until the resend delay is exceeded
must_resend_after_delay(set, now) ==
    LET d == resend_delay(set.message_priority)
    IN \/ now > set.last_sent_packet + d
       \/ /\ set.unanswered_ack /= NoUnanswered
          /\ \/ now >= set.unanswered_ack[1] + (d * 4) \div 5
             \/ now - set.unanswered_ack[2] >= (d * 3) \div 5

\* the condition under which attempt_resend_packets resends
must_resend(set, now) ==
    LET d == resend_delay(set.message_priority)
    IN \/ now >= set.last_sent_packet + d
       \/ /\ set.unanswered_ack /= NoUnanswered
          /\ \/ now >= set.unanswered_ack[1] + (d * 4) \div 5
             \/ now - set.unanswered_ack[2] >= (d * 3) \div 5

attempt_resend_packets(set, seq_id, now) ==
    IF must_resend(set, now) THEN resend_packets(set, seq_id, now)
    ELSE [set |-> set, packets |-> <<>>, complete |-> None]

SentDataTrackerNew == [sets |-> EmptyMap]

\* SentDataTracker::send_data; the caller rules out its panics
tracker_send_data(tracker, seq_id, data, now, message_type, message_priority) ==
    LET sent(built) ==
            [tracker |->
                IF has_ack(message_type)
                THEN [tracker EXCEPT !.sets = MapPut(@, seq_id,
                        SentDataSetNew(data, built.frag_total, now,
                                       from_message_type(message_type, now), message_priority))]
                ELSE tracker,
             packets |-> [k \in 1..Len(built.fragments) |-> PFragment(built.fragments[k])]]
    IN With(build_fragments_from_bytes(data, seq_id, frag_meta_of_type(message_type)), sent)

\* empty message, too many fragments, or a seq_id already registered
tracker_send_data_panics(tracker, seq_id, data, message_type) ==
    \/ data = <<>>
    \/ build_fragments_fails(data)
    \/ has_ack(message_type) /\ seq_id \in DOMAIN tracker.sets

is_seq_id_received(tracker, seq_id) ==
    IF seq_id \notin DOMAIN tracker.sets THEN "Err"
    ELSE IF tracker.sets[seq_id].complete_since /= None THEN "Ok(true)" ELSE "Ok(false)"

receive_ack(tracker, seq_id, data, now) ==
    IF seq_id \in DOMAIN tracker.sets
    THEN [tracker EXCEPT !.sets[seq_id] =
            [@ EXCEPT !.last_received_ack = [at |-> now, ack |-> data],
                      !.unanswered_ack = IF @ /= NoUnanswered THEN <<@[1], now>>
                                         ELSE <<now, now>>]]
    ELSE tracker

\* one set's turn in SentDataTracker::next_tick
tracker_tick_set(set, seq_id, now) ==
    IF is_expired(set, now) THEN [remove |-> TRUE, set |-> set, packets |-> <<>>]
    ELSE IF set.complete_since /= None
    THEN [remove |-> now - set.complete_since >= SEQ_DATA_CLEANUP_DELAY,
          set |-> set, packets |-> <<>>]
    ELSE LET attempted(r) ==
                 [remove |-> FALSE,
                  set |-> IF r.complete /= None
                          THEN [r.set EXCEPT !.complete_since = r.complete]
                          ELSE r.set,
                  packets |-> r.packets]
         IN With(attempt_resend_packets(set, seq_id, now), attempted)

\* SentDataTracker::next_tick: the tracker afterwards and the packets handed
\* to the socket (the sets are visited by ascending seq_id)
tracker_next_tick(tracker, now) ==
    LET ids == DOMAIN tracker.sets
        visited(r, order) ==
            [tracker |-> [sets |-> [s \in {x \in ids : ~r[x].remove} |-> r[s].set]],
             packets |-> Concat([k \in 1..Len(order) |-> r[order[k]].packets])]
    IN With([s \in ids |-> tracker_tick_set(tracker.sets[s], s, now)],
            LAMBDA r : visited(r, SortedSeq(ids)))

(***************************************************************************)
(* ping_handler.rs (its clock is Instant::now(), not the cached instant)   *)
(***************************************************************************)
NoPing == [seq_id |-> None, time |-> None]

PingHandlerNew == [waiting_ping |-> NoPing, current_ping |-> None]

\* ping that keeps an entry of exactly 5 s
ping_kept_longer(ph, seq_id, now) ==
    IF ph.waiting_ping /= NoPing /\ now - ph.waiting_ping.time <= PING_LOST_SECS * 1000
    THEN ph
    ELSE [ph EXCEPT !.waiting_ping = [seq_id |-> seq_id, time |-> now]]

ping(ph, seq_id, now) ==
    IF ph.waiting_ping /= NoPing /\ (now - ph.waiting_ping.time) \div 1000 < PING_LOST_SECS
    THEN ph
    ELSE [ph EXCEPT !.waiting_ping = [seq_id |-> seq_id, time |-> now]]

pong(ph, seq_id, now) ==
    IF ph.waiting_ping /= NoPing /\ ph.waiting_ping.seq_id = seq_id
    THEN [waiting_ping |-> NoPing,
          current_ping |-> IF (now - ph.waiting_ping.time) \div 1000 >= PING_LOST_SECS
                           THEN PING_MAX_MS ELSE now - ph.waiting_ping.time]
    ELSE ph

(***************************************************************************)
(* udp_packet_handler.rs                                                   *)
(***************************************************************************)
UdpPacketHandlerNew == [fragment_combiner |-> FragmentCombinerNew, out_messages |-> <<>>]

\* UdpPacketHandler::add_received_packet: the handler afterwards, and whether
\* the combiner panicked
handler_add_received_packet(h, packet, now) ==
    IF packet.kind = "Fragment"
    THEN LET pushed(r) ==
                 [handler |->
                    IF r.combiner.out_messages /= <<>>
                    THEN [fragment_combiner |->
                              [r.combiner EXCEPT !.out_messages = Tail(@)],
                          out_messages |-> Append(h.out_messages,
                              [kind |-> "Data",
                               seq_id |-> Head(r.combiner.out_messages).seq_id,
                               data |-> Head(r.combiner.out_messages).data])]
                    ELSE [h EXCEPT !.fragment_combiner = r.combiner],
                  panic |-> r.panic]
         IN With(push(h.fragment_combiner, packet.f, now), pushed)
    ELSE [handler |-> [h EXCEPT !.out_messages = Append(@, packet)], panic |-> FALSE]

(***************************************************************************)
(* rudp.rs: RUdpSocket                                                     *)
(***************************************************************************)
\* the fields of RUdpSocket; panicked marks a process that has panicked
SocketNew(status, now) ==
    [status |-> status,
     sent_data_tracker |-> SentDataTrackerNew,
     packet_handler |-> UdpPacketHandlerNew,
     events |-> <<>>,
     ping_handler |-> PingHandlerNew,
     next_local_seq_id |-> 0,
     cached_now |-> now,
     last_received_message |-> now,
     last_sent_message |-> now,
     timeout_delay |-> DEFAULT_TIMEOUT_DELAY,
     heartbeat_delay |-> DEFAULT_HEARTBEAT_DELAY,
     panicked |-> FALSE]

\* RUdpSocket::set_timeout_delay
set_timeout_delay(s, timeout_delay) == [s EXCEPT !.timeout_delay = timeout_delay]

\* RUdpSocket::set_heartbeat_delay
set_heartbeat_delay(s, heartbeat_delay) == [s EXCEPT !.heartbeat_delay = heartbeat_delay]

\* An operation's outcome: the socket afterwards and the packets on the wire.
Out(sock, tx) == [sock |-> sock, tx |-> tx]

\* set_status that forgets the event of the new status
set_status_silent(s, status) == [s EXCEPT !.status = status]

set_status(s, status) ==
    [s EXCEPT !.status = status, !.events = @ \o status_event(status)]

\* RUdpSocket::send_udp_packet, after outcome o
sock_send(o, packets) ==
    LET send(v) == Out([v.sock EXCEPT !.last_sent_message = v.sock.cached_now],
                       v.tx \o send_udp_packet(v.sock.status, packets))
    IN With(o, send)

\* packets handed straight to the wrapper (the tracker's path), after outcome o
wrapper_send(o, packets) ==
    LET send(v) == Out(v.sock, v.tx \o send_udp_packet(v.sock.status, packets))
    IN With(o, send)

send_syn(s) == sock_send(Out(s, <<>>), <<PSyn>>)

\* send_synack that leaves the status as it is
send_synack_unconnected(s) == sock_send(Out(s, <<>>), <<PSynAck>>)

send_synack(s) == sock_send(Out(set_status(s, Connected), <<>>), <<PSynAck>>)

saturating_sub_1(n) == IF n = 0 THEN 0 ELSE n - 1

send_end(s) == sock_send(Out(s, <<>>), <<PEnd(saturating_sub_1(s.next_local_seq_id))>>)

send_abort(s) == sock_send(Out(s, <<>>), <<PAbort(saturating_sub_1(s.next_local_seq_id))>>)

connect(now) == send_syn(SocketNew(SynSent(now), now))

\* the Ok branch of new_incoming (the packet decoded to Syn)
new_incoming(now) == send_synack(SocketNew(SynReceived, now))

\* send_data that takes a new seq_id only after a message with an ack
send_data_seq_id_of_acked(s, data, message_type, message_priority, now) ==
    LET pinged == [s EXCEPT !.ping_handler = IF has_ack(message_type)
                                             THEN ping(@, s.next_local_seq_id, now) ELSE @]
        sent(r) ==
            wrapper_send(
              Out([pinged EXCEPT
                     !.sent_data_tracker = r.tracker,
                     !.next_local_seq_id = IF has_ack(message_type) THEN @ + 1 ELSE @],
                  <<>>),
              r.packets)
    IN With(tracker_send_data(s.sent_data_tracker, s.next_local_seq_id, data,
                              s.cached_now, message_type, message_priority), sent)

\* RUdpSocket::send_data; now is Instant::now().  The ping is armed before the
\* tracker is called, so it is armed when the tracker panics; the tracker
\* panics on a seq_id already registered after it has sent the fragments.
send_data(s, data, message_type, message_priority, now) ==
    LET pinged == [s EXCEPT !.ping_handler = IF has_ack(message_type)
                                             THEN ping(@, s.next_local_seq_id, now) ELSE @]
        sent(r) ==
            wrapper_send(
              Out([pinged EXCEPT
                     !.sent_data_tracker = r.tracker,
                     !.panicked = has_ack(message_type)
                                  /\ s.next_local_seq_id \in DOMAIN s.sent_data_tracker.sets,
                     !.next_local_seq_id =
                         IF has_ack(message_type)
                            /\ s.next_local_seq_id \in DOMAIN s.sent_data_tracker.sets
                         THEN @ ELSE @ + 1], <<>>),
              r.packets)
    IN IF data = <<>> \/ build_fragments_fails(data)
       THEN Out([pinged EXCEPT !.panicked = TRUE], <<>>)
       ELSE With(tracker_send_data(s.sent_data_tracker, s.next_local_seq_id, data,
                                   s.cached_now, message_type, message_priority), sent)

\* RUdpSocket::send_data in a build with overflow checks: the generator panics
\* when it yields a fragment whose next_frag += 1 overflows, after the fragments
\* before it have been sent and before the message is registered
send_data_overflow_checks(s, data, message_type, message_priority, now) ==
    LET pinged == [s EXCEPT !.ping_handler = IF has_ack(message_type)
                                             THEN ping(@, s.next_local_seq_id, now) ELSE @,
                            !.panicked = TRUE]
        \* the fragments yielded before the panic: those before fragment U8 - 1
        sent(built) ==
            wrapper_send(Out(pinged, <<>>),
                         [k \in 1..(U8 - 1) |-> PFragment(built.fragments[k])])
    IN IF data # <<>> /\ ~build_fragments_fails(data)
          /\ next_frag_overflows(fragments_count(data) - 1)
       THEN With(build_fragments_from_bytes(data, s.next_local_seq_id,
                                            frag_meta_of_type(message_type)), sent)
       ELSE send_data(s, data, message_type, message_priority, now)

\* Drop that sends Abort from the Connected status only
drop_connected_only(s) == IF s.status = Connected THEN send_abort(s) ELSE Out(s, <<>>)

\* impl Drop for RUdpSocket
drop(s) ==
    IF s.status.kind \in {"Connected", "SynSent", "SynReceived"} THEN send_abort(s)
    ELSE Out(s, <<>>)

\* RUdpSocket::add_received_packet
add_received_packet(s, packet) ==
    LET received(r) == [s EXCEPT !.last_received_message = s.cached_now,
                                 !.packet_handler = r.handler,
                                 !.panicked = @ \/ r.panic]
    IN With(handler_add_received_packet(s.packet_handler, packet, s.cached_now), received)

\* one message of the handler's queue, as next_packet_event treats it together
\* with inner_tick's push of the event it returns
process_message(s, m, now) ==
    CASE m.kind = "Abort" ->
            [set_status(s, TerminateReceived(s.cached_now)) EXCEPT !.events = Append(@, Aborted)]
      [] m.kind = "Ack" ->
            [s EXCEPT !.ping_handler = pong(@, m.seq_id, now),
                      !.sent_data_tracker = receive_ack(@, m.seq_id, m.data, s.cached_now)]
      [] m.kind = "Data" -> [s EXCEPT !.events = Append(@, Data(m.data))]
      [] m.kind = "End" ->
            [set_status(s, TerminateReceived(s.cached_now)) EXCEPT !.events = Append(@, Ended)]
      [] m.kind = "SynAck" ->
            IF s.status.kind = "SynSent" THEN set_status(s, Connected) ELSE s
      [] OTHER -> s

RECURSIVE process_messages(_, _, _)
process_messages(s, ms, now) ==
    IF ms = <<>> THEN s
    ELSE IF Len(ms) = 1 THEN process_message(s, ms[1], now)
    ELSE With(process_messages(s, FirstHalf(ms), now),
              LAMBDA s1 : process_messages(s1, SecondHalf(ms), now))

\* tick_receive with the timeout compared by > instead of >=
tick_receive_late(s, acks_handler, now) ==
    LET check_timeout(s2) ==
            IF s2.cached_now > s2.last_received_message + s2.timeout_delay
               /\ ~is_finished(s2.status)
            THEN [s2 EXCEPT !.status = TimeoutError(s2.cached_now),
                            !.events = @ \o status_event(TimeoutError(s2.cached_now))]
            ELSE s2
    IN With([process_messages([s EXCEPT !.packet_handler = acks_handler],
                              s.packet_handler.out_messages, now)
               EXCEPT !.packet_handler.out_messages = <<>>],
            check_timeout)

\* inner_tick up to and including the timeout check
tick_receive(s, acks_handler, now) ==
    LET check_timeout(s2) ==
            IF s2.cached_now >= s2.last_received_message + s2.timeout_delay
               /\ ~is_finished(s2.status)
            THEN set_status(s2, TimeoutError(s2.cached_now))
            ELSE s2
    IN With([process_messages([s EXCEPT !.packet_handler = acks_handler],
                              s.packet_handler.out_messages, now)
               EXCEPT !.packet_handler.out_messages = <<>>],
            check_timeout)

\* tick_keepalive that sends the heartbeat after a silence of timeout_delay
tick_keepalive_late(o) ==
    LET resent(o1) == Out(set_status(o1.sock, SynSent(o1.sock.cached_now)), o1.tx)
        keepalive(v) ==
            IF is_connected(v.sock.status)
            THEN IF v.sock.cached_now - v.sock.last_sent_message > v.sock.timeout_delay
                 THEN sock_send(v, <<PHeartbeat>>) ELSE v
            ELSE IF v.sock.status.kind = "SynSent"
                    /\ v.sock.cached_now > v.sock.status.t + SYN_RESEND_DELAY
                 THEN With(sock_send(v, <<PSyn>>), resent)
                 ELSE v
    IN With(o, keepalive)

\* inner_tick: the heartbeat or the repeated Syn
tick_keepalive(o) ==
    LET resent(o1) == Out(set_status(o1.sock, SynSent(o1.sock.cached_now)), o1.tx)
        keepalive(v) ==
            IF is_connected(v.sock.status)
            THEN IF v.sock.cached_now - v.sock.last_sent_message > v.sock.heartbeat_delay
                 THEN sock_send(v, <<PHeartbeat>>) ELSE v
            ELSE IF v.sock.status.kind = "SynSent"
                    /\ v.sock.cached_now > v.sock.status.t + SYN_RESEND_DELAY
                 THEN With(sock_send(v, <<PSyn>>), resent)
                 ELSE v
    IN With(o, keepalive)

\* RUdpSocket::inner_tick; pick is the combiner's choice (see CombinerPicks) and
\* now is Instant::now()
inner_tick(s, pick, now) ==
    LET send_acks(o, acks) ==
            IF acks = <<>> THEN o
            ELSE sock_send(o, [k \in 1..Len(acks) |-> PAck(acks[k].seq_id, acks[k].ack)])
        resend(o, r) ==
            wrapper_send(Out([o.sock EXCEPT !.sent_data_tracker = r.tracker], o.tx), r.packets)
        tracker_tick(o) ==
            With(tracker_next_tick(o.sock.sent_data_tracker, o.sock.cached_now),
                 LAMBDA r : resend(o, r))
        after(t) ==
            IF t.panic THEN Out([s EXCEPT !.panicked = TRUE], <<>>)
            ELSE With(tick_keepalive(send_acks(
                        Out(tick_receive(s, [s.packet_handler EXCEPT
                                               !.fragment_combiner = t.combiner], now), <<>>),
                        t.acks)),
                      tracker_tick)
    IN With(combiner_tick(s.packet_handler.fragment_combiner, s.cached_now, pick), after)

RECURSIVE add_received_packets(_, _)
add_received_packets(s, packets) ==
    IF packets = <<>> \/ s.panicked THEN s
    ELSE IF Len(packets) = 1 THEN add_received_packet(s, packets[1])
    ELSE With(add_received_packets(s, FirstHalf(packets)),
              LAMBDA s1 : add_received_packets(s1, SecondHalf(packets)))

should_clear(s) == is_finished_and_old(s.status, s.cached_now)

\* RUdpSocket::drain_events, the iterator run to its end
drain_events(s) == [sock |-> [s EXCEPT !.events = <<>>], returned |-> s.events]

\* next_event that pops the back of the queue
next_event_back(s) ==
    IF s.events = <<>> THEN [sock |-> s, returned |-> <<>>]
    ELSE [sock |-> [s EXCEPT !.events = SubSeq(@, 1, Len(@) - 1)],
          returned |-> <<s.events[Len(s.events)]>>]

\* RUdpSocket::next_event
next_event(s) ==
    IF s.events = <<>> THEN [sock |-> s, returned |-> <<>>]
    ELSE [sock |-> [s EXCEPT !.events = Tail(@)], returned |-> <<Head(s.events)>>]

(***************************************************************************)
(* rudp.rs: RUdpSocket::next_tick of a client, and rudp_server.rs          *)
(***************************************************************************)
ServerAddr == 0

ClientAddr == 1

Datagram(src, dst, pkt) == [src |-> src, dst |-> dst, pkt |-> pkt]

Datagrams(src, dst, packets) == [k \in 1..Len(packets) |-> Datagram(src, dst, packets[k])]

\* from_udp_socket returns Err(err), err.kind() other than WouldBlock (the
\* end of rx is the WouldBlock that ends the receive loop)
RecvError == [src |-> None, dst |-> None, pkt |-> [kind |-> "IoError"]]

\* the packets of the datagrams that come from address src; a receive error
\* is logged and the loop goes on
PacketsFrom(rx, src) ==
    LET keep == SelectSeq(rx, LAMBDA g : g.src = src)
    IN [k \in 1..Len(keep) |-> keep[k].pkt]

\* next_tick before inner_tick: the clock is read and the datagrams of the
\* remote are queued (the others are ignored)
client_receive(s, rx, now) ==
    add_received_packets([s EXCEPT !.cached_now = now], PacketsFrom(rx, ServerAddr))

\* RUdpSocket::next_tick
next_tick(s, rx, pick, now) ==
    LET tick(s1) == IF s1.panicked THEN Out(s1, <<>>) ELSE inner_tick(s1, pick, now)
    IN With(client_receive(s, rx, now), tick)

RUdpServerNew == [remotes |-> EmptyMap, tx |-> <<>>, panicked |-> FALSE]

\* process_one_incoming that registers a child for whatever an unknown address
\* sends
process_one_incoming_any(sv, g, now) ==
    IF g.src \in DOMAIN sv.remotes
    THEN LET queued(child) ==
                 [sv EXCEPT !.remotes[g.src] = child, !.panicked = @ \/ child.panicked]
         IN With(add_received_packet(sv.remotes[g.src], g.pkt), queued)
    ELSE LET inserted(o) ==
                 [sv EXCEPT !.remotes = MapPut(@, g.src, o.sock),
                            !.tx = @ \o Datagrams(ServerAddr, g.src, o.tx)]
         IN With(new_incoming(now), inserted)

\* RUdpServer::process_one_incoming
process_one_incoming(sv, g, now) ==
    IF g.src \in DOMAIN sv.remotes
    THEN LET queued(child) ==
                 [sv EXCEPT !.remotes[g.src] = child, !.panicked = @ \/ child.panicked]
         IN With(add_received_packet(sv.remotes[g.src], g.pkt), queued)
    ELSE IF g.pkt.kind = "Syn"
    THEN LET inserted(o) ==
                 [sv EXCEPT !.remotes = MapPut(@, g.src, o.sock),
                            !.tx = @ \o Datagrams(ServerAddr, g.src, o.tx)]
         IN With(new_incoming(now), inserted)
    ELSE sv

RECURSIVE process_all_incoming(_, _, _)
process_all_incoming(sv, rx, now) ==
    IF rx = <<>> \/ sv.panicked THEN sv
    ELSE IF Len(rx) > 1
    THEN With(process_all_incoming(sv, FirstHalf(rx), now),
              LAMBDA sv1 : process_all_incoming(sv1, SecondHalf(rx), now))
    ELSE IF Head(rx) = RecvError THEN [sv EXCEPT !.panicked = TRUE]
    ELSE process_one_incoming(sv, Head(rx), now)

\* RUdpServer::next_tick up to the children's inner_tick: the finished and old
\* children are dropped, the clock is read, the datagrams are dispatched
server_receive(sv, rx, now) ==
    LET kept == {a \in DOMAIN sv.remotes : ~should_clear(sv.remotes[a])}
    IN With([sv EXCEPT !.remotes = [a \in kept |-> [sv.remotes[a] EXCEPT !.cached_now = now]],
                       !.tx = <<>>],
            LAMBDA sv1 : process_all_incoming(sv1, rx, now))

\* the combiner choices of every child
ServerPicks(sv) ==
    {p \in [DOMAIN sv.remotes ->
              UNION {CombinerPicks(sv.remotes[a].packet_handler.fragment_combiner) :
                       a \in DOMAIN sv.remotes}] :
        \A a \in DOMAIN sv.remotes :
            p[a] \in CombinerPicks(sv.remotes[a].packet_handler.fragment_combiner)}

\* RUdpServer::next_tick; sv1 is server_receive's result
server_inner_ticks(sv1, picks, now) ==
    LET ticked(o, order) ==
            [remotes |-> [a \in DOMAIN sv1.remotes |-> o[a].sock],
             tx |-> sv1.tx \o Concat([k \in 1..Len(order) |->
                        Datagrams(ServerAddr, order[k], o[order[k]].tx)]),
             panicked |-> \E a \in DOMAIN sv1.remotes : o[a].sock.panicked]
    IN IF sv1.panicked THEN sv1
       ELSE With([a \in DOMAIN sv1.remotes |-> inner_tick(sv1.remotes[a], picks[a], now)],
                 LAMBDA o : ticked(o, SortedSeq(DOMAIN sv1.remotes)))

\* RUdpServer::send_data: send_data of every child
server_send_data(sv, data, message_type, now) ==
    LET sent(o, order) ==
            [remotes |-> [a \in DOMAIN sv.remotes |-> o[a].sock],
             tx |-> Concat([k \in 1..Len(order) |->
                        Datagrams(ServerAddr, order[k], o[order[k]].tx)]),
             panicked |-> \E a \in DOMAIN sv.remotes : o[a].sock.panicked]
    IN With([a \in DOMAIN sv.remotes |->
                send_data(sv.remotes[a], data, message_type, "Normal", now)],
            LAMBDA o : sent(o, SortedSeq(DOMAIN sv.remotes)))

\* RUdpServer::drain_events, the iterator run to its end: the events of the
\* child of address a, and the server left with empty queues
server_drain_events(sv, a) ==
    [server |-> [sv EXCEPT !.remotes = [b \in DOMAIN @ |-> drain_events(@[b]).sock]],
     returned |-> drain_events(sv.remotes[a]).returned]

(***************************************************************************)
(* The system: one client, one server, the network between them.           *)
(*                                                                         *)
(* net holds the datagrams sent and not lost.  A tick reads the clock,     *)
(* which has advanced since the previous tick, receives some of the        *)
(* datagrams addressed to it, in any order, and runs next_tick.  app holds  *)
(* the events the application has been handed, so app followed by a queue  *)
(* is the log of the events of its socket; only EventSpec drains, elsewhere *)
(* the queue is the log.                                                   *)
(***************************************************************************)
VARIABLES now, client, server, net, lost, last, app

vars == <<now, client, server, net, lost, last, app>>

\* the application has been handed no event
NoEvents == [client |-> <<>>, child |-> <<>>]

\* a message of n fragments
Payload(n) == [k \in 1..(n * ChunkSize) |-> k % 256]

RECURSIVE SeqsOver(_, _)
\* the sequences of at most n elements of S (a datagram may arrive twice)
SeqsOver(S, n) ==
    IF n = 0 \/ S = {} THEN {<<>>}
    ELSE {<<>>} \cup UNION {{<<x>> \o q : q \in SeqsOver(S, n - 1)} : x \in S}

InFlight(dst) == {g \in net : g.dst = dst}

\* what a tick at address dst may receive from a network that delays,
\* reorders and duplicates
RxChoices(dst) == SeqsOver(InFlight(dst), MaxRecv)

RECURSIVE SeqOfSet(_)
SeqOfSet(S) ==
    IF S = {} THEN <<>>
    ELSE With(CHOOSE x \in S : TRUE,
              LAMBDA x : With(S \ {x}, LAMBDA T : <<x>> \o SeqOfSet(T)))

\* what a tick at address dst receives from a network that delivers at once
\* whatever it has not lost
AllInFlight(dst) == SeqOfSet(InFlight(dst))

Step(op, rx, tx) == [op |-> op, rx |-> rx, tx |-> tx]

\* c.next_tick() at instant t, receiving rx; rest is what stays in the network
ClientTickAt(c, sv, t, rx, rest) ==
    /\ c.alive /\ ~c.sock.panicked
    /\ \E pick \in CombinerPicks(client_receive(c.sock, rx, t).packet_handler.fragment_combiner) :
       \E o \in {next_tick(c.sock, rx, pick, t)} :
       \E sent \in {Datagrams(ClientAddr, ServerAddr, o.tx)} :
           /\ client' = [c EXCEPT !.sock = o.sock]
           /\ net' = rest \cup Range(sent)
           /\ last' = Step("client_tick", rx, sent)
    /\ now' = t
    /\ server' = sv
    /\ UNCHANGED <<lost, app>>

\* sv.next_tick() at instant t, receiving rx; rest is what stays in the network
ServerTickAt(c, sv, t, rx, rest) ==
    /\ ~sv.panicked
    /\ \E sv1 \in {server_receive(sv, rx, t)} :
       \E picks \in ServerPicks(sv1) :
       \E sv2 \in {server_inner_ticks(sv1, picks, t)} :
           /\ server' = sv2
           /\ net' = rest \cup Range(sv2.tx)
           /\ last' = Step("server_tick", rx, sv2.tx)
    /\ now' = t
    /\ client' = c
    /\ UNCHANGED <<lost, app>>

\* client.send_data(data, message_type, message_priority)
ClientSendData(data, message_type, message_priority) ==
    /\ client.alive /\ ~client.sock.panicked
    /\ client.sock.next_local_seq_id < MaxMessages
    /\ \E o \in {send_data(client.sock, data, message_type, message_priority, now)} :
       \E sent \in {Datagrams(ClientAddr, ServerAddr, o.tx)} :
          /\ client' = [client EXCEPT !.sock = o.sock]
          /\ net' = net \cup Range(sent)
          /\ last' = Step("send_data", <<>>, sent)
    /\ UNCHANGED <<now, server, lost, app>>

\* client.terminate(): send_end, then the socket is dropped
ClientTerminate ==
    /\ client.alive /\ ~client.sock.panicked
    /\ \E o1 \in {send_end(client.sock)} :
       \E o2 \in {drop(o1.sock)} :
       \E sent \in {Datagrams(ClientAddr, ServerAddr, o1.tx \o o2.tx)} :
          /\ client' = [alive |-> FALSE, sock |-> o2.sock]
          /\ net' = net \cup Range(sent)
          /\ last' = Step("terminate", <<>>, sent)
    /\ UNCHANGED <<now, server, lost, app>>

\* the client socket goes out of scope
ClientDrop ==
    /\ client.alive /\ ~client.sock.panicked
    /\ \E o \in {drop(client.sock)} :
       \E sent \in {Datagrams(ClientAddr, ServerAddr, o.tx)} :
          /\ client' = [alive |-> FALSE, sock |-> o.sock]
          /\ net' = net \cup Range(sent)
          /\ last' = Step("drop", <<>>, sent)
    /\ UNCHANGED <<now, server, lost, app>>

\* the network loses a datagram in flight, with the copies of it that are in
\* flight (net is a set); lost: the datagrams lost so far
Lose ==
    /\ Len(lost) < MaxLost
    /\ \E g \in net : net' = net \ {g} /\ lost' = Append(lost, g)
    /\ UNCHANGED <<now, client, server, last, app>>

\* the client right after connect at instant 0
JustConnected ==
    /\ now = 0
    /\ client = [alive |-> TRUE, sock |-> connect(0).sock]
    /\ server = RUdpServerNew
    /\ net = Range(Datagrams(ClientAddr, ServerAddr, connect(0).tx))
    /\ lost = <<>>
    /\ app = NoEvents
    /\ last = Step("connect", <<>>, Datagrams(ClientAddr, ServerAddr, connect(0).tx))

\* the handshake has been completed at instant 0
BothConnected ==
    /\ now = 0
    /\ client = [alive |-> TRUE, sock |-> set_status(connect(0).sock, Connected)]
    /\ server = [RUdpServerNew EXCEPT
                   !.remotes = MapPut(EmptyMap, ClientAddr, new_incoming(0).sock)]
    /\ net = {}
    /\ lost = <<>>
    /\ app = NoEvents
    /\ last = Step("connect", <<>>, <<>>)

(***************************************************************************)
(* Spec: the handshake, the timeout and the end of a connection.  The      *)
(* client has just called connect.  The network loses, delays, reorders    *)
(* and duplicates.                                                         *)
(***************************************************************************)
ConnSteps == {5000}

ConnEnd == MaxTicks * 5000

Init == JustConnected

ClientTick == \E d \in ConnSteps : \E rx \in RxChoices(ClientAddr) :
    now + d <= ConnEnd /\ ClientTickAt(client, server, now + d, rx, net)

ServerTick == \E d \in ConnSteps : \E rx \in RxChoices(ServerAddr) :
    now + d <= ConnEnd /\ ServerTickAt(client, server, now + d, rx, net)

SendKey == ClientSendData(Payload(1), KeyMessage, "Normal")

Next == ClientTick \/ ServerTick \/ SendKey \/ ClientTerminate \/ ClientDrop

Spec == Init /\ [][Next]_vars

(***************************************************************************)
(* DupSpec: one reliable message of one fragment on a connection, the      *)
(* peers ticking in turn, 50 ms after one another.  The network keeps      *)
(* every datagram sent; a tick receives nothing or all of them, again and  *)
(* again (loss, delay and duplication).                                    *)
(***************************************************************************)
DupRx(dst) == {<<>>, AllInFlight(dst)}

DupClientTick == \E rx \in DupRx(ClientAddr) :
    /\ last.op # "client_tick"
    /\ now + 50 <= DupTicks * 50
    /\ ClientTickAt(client, server, now + 50, rx, net)

DupServerTick == \E rx \in DupRx(ServerAddr) :
    /\ last.op # "server_tick"
    /\ now + 50 <= DupTicks * 50
    /\ ServerTickAt(client, server, now + 50, rx, net)

DupNext == DupClientTick \/ DupServerTick \/ SendKey

DupSpec == BothConnected /\ [][DupNext]_vars

(***************************************************************************)
(* AckSpec: one reliable message of nine fragments (frag_total = 8) on a   *)
(* connection, the peers ticking every 200 ms, over a network that loses   *)
(* at most MaxLost datagrams and delivers the others to the next tick.     *)
(***************************************************************************)
AckClientTick ==
    /\ now + 200 <= AckTicks * 200
    /\ ClientTickAt(client, server, now + 200, AllInFlight(ClientAddr),
                    net \ InFlight(ClientAddr))

AckServerTick ==
    /\ now + 200 <= AckTicks * 200
    /\ ServerTickAt(client, server, now + 200, AllInFlight(ServerAddr),
                    net \ InFlight(ServerAddr))

SendNine == ClientSendData(Payload(9), KeyMessage, "Normal")

AckNext == AckClientTick \/ AckServerTick \/ SendNine \/ Lose

AckSpec == BothConnected /\ [][AckNext]_vars

(***************************************************************************)
(* Behaviours that never end.  The clock is kept in 0..Horizon: a tick     *)
(* that would read a later instant moves every instant of the state back   *)
(* by the excess, and an instant that would become negative becomes 0.     *)
(* The code compares an instant only with a later one, across delays       *)
(* shorter than Horizon less one step, so it decides as it would with the  *)
(* clock running on.                                                       *)
(***************************************************************************)
FairSteps == {2000}

Horizon == DEFAULT_TIMEOUT_DELAY + 4000

Excess(t) == IF t > Horizon THEN t - Horizon ELSE 0

ShiftT(t, k) == IF t = None THEN None ELSE IF t > k THEN t - k ELSE 0

ShiftSentSet(set, k) ==
    [set EXCEPT !.expiration_type = IF @.kind = "ExpirableKey"
                                    THEN [@ EXCEPT !.expiration = ShiftT(@, k)] ELSE @,
                !.last_received_ack.at = ShiftT(@, k),
                !.last_sent_packet = ShiftT(@, k),
                !.unanswered_ack = <<ShiftT(@[1], k), ShiftT(@[2], k)>>,
                !.complete_since = ShiftT(@, k)]

ShiftFragmentSet(fs, k) ==
    [fs EXCEPT !.last_sent_ack_iteration = ShiftT(@, k),
               !.last_received_iteration = ShiftT(@, k),
               !.state = IF @.kind = "Complete" THEN [@ EXCEPT !.at = ShiftT(@, k)] ELSE @]

ShiftSocket(s, k) ==
    IF k = 0 THEN s
    ELSE [s EXCEPT
            !.status = IF @.kind \in {"SynReceived", "Connected"} THEN @
                       ELSE [@ EXCEPT !.t = ShiftT(@, k)],
            !.cached_now = ShiftT(@, k),
            !.last_received_message = ShiftT(@, k),
            !.last_sent_message = ShiftT(@, k),
            !.ping_handler.waiting_ping.time = ShiftT(@, k),
            !.sent_data_tracker.sets = [q \in DOMAIN @ |-> ShiftSentSet(@[q], k)],
            !.packet_handler.fragment_combiner.pending_fragments =
                [q \in DOMAIN @ |-> ShiftFragmentSet(@[q], k)]]

ShiftClient(c, k) == [c EXCEPT !.sock = ShiftSocket(@, k)]

ShiftServer(sv, k) ==
    [sv EXCEPT !.remotes = [a \in DOMAIN @ |-> ShiftSocket(@[a], k)]]

\* the ticks of peers that tick for ever, over a network that delivers to the
\* next tick whatever it has not lost (Lose: at most MaxLost datagrams)
FairClientTick == \E d \in FairSteps : \E k \in {Excess(now + d)} :
    \E c \in {ShiftClient(client, k)} : \E sv \in {ShiftServer(server, k)} :
    \E rx \in {AllInFlight(ClientAddr)} :
        ClientTickAt(c, sv, now + d - k, rx, net \ InFlight(ClientAddr))

FairServerTick == \E d \in FairSteps : \E k \in {Excess(now + d)} :
    \E c \in {ShiftClient(client, k)} : \E sv \in {ShiftServer(server, k)} :
    \E rx \in {AllInFlight(ServerAddr)} :
        ServerTickAt(c, sv, now + d - k, rx, net \ InFlight(ServerAddr))

(***************************************************************************)
(* FairConnSpec: the handshake when both peers tick for ever               *)
(***************************************************************************)
FairConnNext == FairClientTick \/ FairServerTick \/ Lose

FairConnSpec ==
    /\ JustConnected
    /\ [][FairConnNext]_vars
    /\ WF_vars(FairClientTick)
    /\ WF_vars(FairServerTick)

(***************************************************************************)
(* FairDataSpec: a reliable message of nine fragments on a connection when *)
(* both peers tick for ever and the network loses one datagram at most     *)
(***************************************************************************)
\* the network loses one datagram, once
LoseOnce == lost = <<>> /\ Lose

FairDataNext == FairClientTick \/ FairServerTick \/ SendNine \/ LoseOnce

FairDataSpec ==
    /\ BothConnected
    /\ [][FairDataNext]_vars
    /\ WF_vars(FairClientTick)
    /\ WF_vars(FairServerTick)
    /\ WF_vars(SendNine)

(***************************************************************************)
(* StrangerSpec: a connection, and a third address that sends the server   *)
(* datagrams of every kind.  The peers tick every 600 ms; a tick receives  *)
(* whatever is in flight, in any order.                                    *)
(***************************************************************************)
StrangerAddr == 2

StrangerPackets ==
    {PSyn, PSynAck, PHeartbeat, PEnd(0), PAbort(0), PAck(0, <<255>>), PRaw,
     PFragment(Fragment(0, 0, 0, "Key", <<1>>))}

RECURSIVE Perms(_)
\* the orders in which the datagrams S may arrive
Perms(S) ==
    IF S = {} THEN {<<>>}
    ELSE UNION {{<<x>> \o q : q \in Perms(S \ {x})} : x \in S}

StrangerSends == \E pkt \in StrangerPackets :
    /\ Cardinality({g \in net : g.src = StrangerAddr}) < MaxRecv
    /\ net' = net \cup {Datagram(StrangerAddr, ServerAddr, pkt)}
    /\ last' = Step("stranger", <<>>, <<Datagram(StrangerAddr, ServerAddr, pkt)>>)
    /\ UNCHANGED <<now, client, server, lost, app>>

StrangerClientTick ==
    /\ now + 600 <= StrangerTicks * 600
    /\ ClientTickAt(client, server, now + 600, AllInFlight(ClientAddr),
                    net \ InFlight(ClientAddr))

StrangerServerTick == \E rx \in Perms(InFlight(ServerAddr)) :
    /\ now + 600 <= StrangerTicks * 600
    /\ ServerTickAt(client, server, now + 600, rx, net \ InFlight(ServerAddr))

StrangerNext == StrangerSends \/ StrangerClientTick \/ StrangerServerTick

StrangerSpec == BothConnected /\ [][StrangerNext]_vars

(***************************************************************************)
(* EventSpec: the events handed to the application.  The client connects,  *)
(* sends EventMessages messages of two fragments, each with its own        *)
(* payload, and may terminate; the server sends one message                *)
(* to its children.  The peers tick every second; a tick receives whatever *)
(* is in flight, in any order.  The application takes the events of the    *)
(* client with drain_events or next_event and those of the child with the  *)
(* server's drain_events.                                                  *)
(***************************************************************************)
\* the message the client sends with seq_id n: its own payload, of two fragments
EventPayload(n) == <<n + 1, n + 11>>

EventClientSend ==
    /\ client.alive /\ ~client.sock.panicked
    /\ client.sock.next_local_seq_id < EventMessages
    /\ \E o \in {send_data(client.sock, EventPayload(client.sock.next_local_seq_id),
                           Forgettable, "Normal", now)} :
       \E sent \in {Datagrams(ClientAddr, ServerAddr, o.tx)} :
          /\ client' = [client EXCEPT !.sock = o.sock]
          /\ net' = net \cup Range(sent)
          /\ last' = Step("send_data", <<>>, sent)
    /\ UNCHANGED <<now, server, lost, app>>

EventServerSend ==
    /\ ~server.panicked
    /\ ClientAddr \in DOMAIN server.remotes
    /\ server.remotes[ClientAddr].next_local_seq_id < 1
    /\ \E sv \in {server_send_data(server, <<9>>, Forgettable, now)} :
          /\ server' = sv
          /\ net' = net \cup Range(sv.tx)
          /\ last' = Step("server_send_data", <<>>, sv.tx)
    /\ UNCHANGED <<now, client, lost, app>>

EventClientTick == \E rx \in Perms(InFlight(ClientAddr)) :
    /\ now + 1000 <= EventTicks * 1000
    /\ ClientTickAt(client, server, now + 1000, rx, net \ InFlight(ClientAddr))

EventServerTick == \E rx \in Perms(InFlight(ServerAddr)) :
    /\ now + 1000 <= EventTicks * 1000
    /\ ServerTickAt(client, server, now + 1000, rx, net \ InFlight(ServerAddr))

\* the application runs client.drain_events() to its end
ClientDrain ==
    /\ client.alive /\ client.sock.events # <<>>
    /\ \E r \in {drain_events(client.sock)} :
          /\ client' = [client EXCEPT !.sock = r.sock]
          /\ app' = [app EXCEPT !.client = @ \o r.returned]
    /\ last' = Step("drain_events", <<>>, <<>>)
    /\ UNCHANGED <<now, server, net, lost>>

\* the application calls client.next_event()
ClientNextEvent ==
    /\ client.alive /\ client.sock.events # <<>>
    /\ \E r \in {next_event(client.sock)} :
          /\ client' = [client EXCEPT !.sock = r.sock]
          /\ app' = [app EXCEPT !.client = @ \o r.returned]
    /\ last' = Step("next_event", <<>>, <<>>)
    /\ UNCHANGED <<now, server, net, lost>>

\* the application runs server.drain_events() to its end
ServerDrain ==
    /\ ClientAddr \in DOMAIN server.remotes
    /\ server.remotes[ClientAddr].events # <<>>
    /\ \E r \in {server_drain_events(server, ClientAddr)} :
          /\ server' = r.server
          /\ app' = [app EXCEPT !.child = @ \o r.returned]
    /\ last' = Step("server_drain_events", <<>>, <<>>)
    /\ UNCHANGED <<now, client, net, lost>>

EventNext ==
    \/ EventClientSend \/ EventServerSend \/ EventClientTick \/ EventServerTick
    \/ ClientTerminate \/ ClientDrain \/ ClientNextEvent \/ ServerDrain

EventSpec == JustConnected /\ [][EventNext]_vars

(***************************************************************************)
(* MetaSpec: one message of two fragments on a connection, Forgettable or  *)
(* KeyExpirableMessage(0), the peers ticking every 100 ms over a network   *)
(* that loses at most MaxLost datagrams and delivers the others to the     *)
(* next tick.                                                              *)
(***************************************************************************)
MetaSendForgettable == ClientSendData(Payload(2), Forgettable, "Normal")

MetaSendZero == ClientSendData(Payload(2), KeyExpirableMessage(0), "Normal")

MetaClientTick ==
    /\ now + 100 <= MetaTicks * 100
    /\ ClientTickAt(client, server, now + 100, AllInFlight(ClientAddr),
                    net \ InFlight(ClientAddr))

MetaServerTick ==
    /\ now + 100 <= MetaTicks * 100
    /\ ServerTickAt(client, server, now + 100, AllInFlight(ServerAddr),
                    net \ InFlight(ServerAddr))

MetaNext ==
    MetaSendForgettable \/ MetaSendZero \/ MetaClientTick \/ MetaServerTick \/ Lose

MetaSpec == BothConnected /\ [][MetaNext]_vars

(***************************************************************************)
(* ExpirySpec: one message on a connection, KeyExpirableMessage(300 ms) of *)
(* two fragments or KeyMessage of one, the peers ticking every 100 ms over *)
(* a network that loses at most MaxLost datagrams and delivers the others  *)
(* to the next tick.                                                       *)
(***************************************************************************)
SendExpirable == ClientSendData(Payload(2), KeyExpirableMessage(ExpiryDelay), "Normal")

ExpiryClientTick ==
    /\ now + 100 <= ExpiryTicks * 100
    /\ ClientTickAt(client, server, now + 100, AllInFlight(ClientAddr),
                    net \ InFlight(ClientAddr))

ExpiryServerTick ==
    /\ now + 100 <= ExpiryTicks * 100
    /\ ServerTickAt(client, server, now + 100, AllInFlight(ServerAddr),
                    net \ InFlight(ServerAddr))

ExpiryNext == SendExpirable \/ SendKey \/ ExpiryClientTick \/ ExpiryServerTick \/ Lose

ExpirySpec == BothConnected /\ [][ExpiryNext]_vars

(***************************************************************************)
(* SeqSpec: the seq_ids of the messages of one socket.  On a connection    *)
(* the client sends SeqMessages messages of one fragment, each of any      *)
(* type, the peers ticking every 100 ms over a network that delivers to    *)
(* the next tick.                                                          *)
(***************************************************************************)
SeqTypes == {Forgettable, KeyExpirableMessage(ExpiryDelay), KeyMessage}

\* client.send_data(1 fragment, message_type, Normal)
SeqSend ==
    /\ client.alive /\ ~client.sock.panicked
    /\ client.sock.next_local_seq_id < SeqMessages
    /\ \E message_type \in SeqTypes :
       \E o \in {send_data(client.sock, Payload(1), message_type, "Normal", now)} :
       \E sent \in {Datagrams(ClientAddr, ServerAddr, o.tx)} :
          /\ client' = [client EXCEPT !.sock = o.sock]
          /\ net' = net \cup Range(sent)
          /\ last' = Step("send_data", <<>>, sent)
    /\ UNCHANGED <<now, server, lost, app>>

SeqClientTick ==
    /\ now + 100 <= SeqTicks * 100
    /\ ClientTickAt(client, server, now + 100, AllInFlight(ClientAddr),
                    net \ InFlight(ClientAddr))

SeqServerTick ==
    /\ now + 100 <= SeqTicks * 100
    /\ ServerTickAt(client, server, now + 100, AllInFlight(ServerAddr),
                    net \ InFlight(ServerAddr))

SeqNext == SeqSend \/ SeqClientTick \/ SeqServerTick

SeqSpec == BothConnected /\ [][SeqNext]_vars

(***************************************************************************)
(* OversizeSpec: SeqSpec where the client may also send a message of       *)
(* MAX_FRAGMENTS_IN_MESSAGE + 1 fragments, of any type.                    *)
(***************************************************************************)
\* client.send_data(257 fragments, message_type, Normal)
SendOversize ==
    /\ client.alive /\ ~client.sock.panicked
    /\ \E message_type \in SeqTypes :
       \E o \in {send_data(client.sock, Payload(MAX_FRAGMENTS_IN_MESSAGE + 1),
                           message_type, "Normal", now)} :
       \E sent \in {Datagrams(ClientAddr, ServerAddr, o.tx)} :
          /\ client' = [client EXCEPT !.sock = o.sock]
          /\ net' = net \cup Range(sent)
          /\ last' = Step("send_data_oversize", <<>>, sent)
    /\ UNCHANGED <<now, server, lost, app>>

OversizeNext == SeqSend \/ SendOversize \/ SeqClientTick \/ SeqServerTick

OversizeSpec == BothConnected /\ [][OversizeNext]_vars

(***************************************************************************)
(* RecvErrorSpec: SeqSpec where one receive of a tick may fail with an     *)
(* error other than WouldBlock, before, between or after the datagrams     *)
(* in flight.                                                              *)
(***************************************************************************)
\* rx, and rx with one failed receive at any place
WithRecvError(rx) ==
    {rx} \cup {SubSeq(rx, 1, k) \o <<RecvError>> \o SubSeq(rx, k + 1, Len(rx)) :
                  k \in 0..Len(rx)}

RecvErrorClientTick == \E rx \in WithRecvError(AllInFlight(ClientAddr)) :
    /\ now + 100 <= SeqTicks * 100
    /\ ClientTickAt(client, server, now + 100, rx, net \ InFlight(ClientAddr))

RecvErrorServerTick == \E rx \in WithRecvError(AllInFlight(ServerAddr)) :
    /\ now + 100 <= SeqTicks * 100
    /\ ServerTickAt(client, server, now + 100, rx, net \ InFlight(ServerAddr))

RecvErrorNext == SeqSend \/ RecvErrorClientTick \/ RecvErrorServerTick

RecvErrorSpec == BothConnected /\ [][RecvErrorNext]_vars

(***************************************************************************)
(* FragSpec: fragmentation and reassembly.  On a connection the client     *)
(* sends messages of 1, 2, 3, 255 and 256 fragments, of any type, from a   *)
(* build with or without overflow checks.  The peers tick every 100 ms; a  *)
(* tick of the server receives the fragments in flight: those of a small   *)
(* message in any order, some of them twice or not at all, those of a      *)
(* large one in one order or in the reverse one, the first of them once    *)
(* more at the end.                                                        *)
(***************************************************************************)
FragCounts == {1, 2, FragSmall, MAX_FRAGMENTS_IN_MESSAGE - 1, MAX_FRAGMENTS_IN_MESSAGE}

FragSend ==
    /\ client.alive /\ ~client.sock.panicked
    /\ client.sock.next_local_seq_id < MaxMessages
    /\ \E n \in FragCounts : \E message_type \in SeqTypes :
       \E o \in {send_data(client.sock, Payload(n), message_type, "Normal", now),
                 send_data_overflow_checks(client.sock, Payload(n), message_type,
                                           "Normal", now)} :
       \E sent \in {Datagrams(ClientAddr, ServerAddr, o.tx)} :
          /\ client' = [client EXCEPT !.sock = o.sock]
          /\ net' = net \cup Range(sent)
          /\ last' = Step("send_data", <<>>, sent)
    /\ UNCHANGED <<now, server, lost, app>>

Reverse(seq) == [k \in 1..Len(seq) |-> seq[Len(seq) + 1 - k]]

\* the datagrams S: the fragments, by seq_id and frag_id, after the others
InFragmentOrder(S) ==
    LET frags == {g \in S : g.pkt.kind = "Fragment"}
        key(g) == g.pkt.f.seq_id * U8 + g.pkt.f.frag_id
        sorted(keys) == [k \in 1..Len(keys) |-> CHOOSE g \in frags : key(g) = keys[k]]
    IN SeqOfSet(S \ frags) \o With(SortedSeq({key(g) : g \in frags}), sorted)

\* what a tick may receive of the datagrams S in flight
FragRx(S) ==
    IF Cardinality(S) <= FragSmall
    THEN SeqsOver(S, Cardinality(S) + 1)
    ELSE With(InFragmentOrder(S),
              LAMBDA rx : {rx, Reverse(rx), rx \o <<rx[1]>>, Reverse(rx) \o <<rx[1]>>})

FragClientTick ==
    /\ now + 100 <= FragTicks * 100
    /\ ClientTickAt(client, server, now + 100, AllInFlight(ClientAddr),
                    net \ InFlight(ClientAddr))

FragServerTick == \E rx \in FragRx(InFlight(ServerAddr)) :
    /\ now + 100 <= FragTicks * 100
    /\ ServerTickAt(client, server, now + 100, rx, net \ Range(rx))

FragNext == FragSend \/ FragClientTick \/ FragServerTick

FragSpec == BothConnected /\ [][FragNext]_vars

(***************************************************************************)
(* BitmapSpec: the ack bitmaps.  The input is a frag_total of 0 to 255     *)
(* with a set of frag ids (every set for a small frag_total; none, all,    *)
(* the first, the last, the even ones and all but the last otherwise), or  *)
(* a FragmentSet that holds every fragment of a message with that          *)
(* frag_total.  The operations of ack.rs are applied to the first, and     *)
(* complete and generate_ack to the second; last holds the operation, its  *)
(* input (rx) and its result (tx).  The connection plays no part.          *)
(***************************************************************************)
FragTotals == 0..(U8 - 1)

IdSets(frag_total) ==
    IF frag_total < AckSmall THEN SUBSET (0..frag_total)
    ELSE {{}, 0..frag_total, {0}, {frag_total}, 0..(frag_total - 1),
          {i \in 0..frag_total : i % 2 = 0}}

\* an Incomplete set that has received the frag_total + 1 fragments of a message
FullSet(frag_total, frag_meta) ==
    [with_capacity(0, 0, frag_meta) EXCEPT
        !.state = Incomplete([k \in 0..frag_total |->
                                Fragment(0, k, frag_total, frag_meta, <<k>>)])]

BitmapInputs ==
    UNION {{Step("ids", [frag_total |-> t, ids |-> ids], <<>>) : ids \in IdSets(t)}
              : t \in FragTotals}
      \cup {Step("set", [frag_total |-> t, set |-> FullSet(t, frag_meta)], <<>>)
              : t \in FragTotals, frag_meta \in {"KeyExpirable", "Key"}}

BitmapInit ==
    /\ now = 0
    /\ client = [alive |-> TRUE, sock |-> set_status(connect(0).sock, Connected)]
    /\ server = RUdpServerNew
    /\ net = {}
    /\ lost = <<>>
    /\ app = NoEvents
    /\ last \in BitmapInputs

\* Ack::create_from_frag_ids(ids, frag_total)
CreateFromFragIds ==
    /\ last.op = "ids"
    /\ last' = Step("create_from_frag_ids", last.rx,
                    IF create_from_frag_ids_panics(last.rx.ids, last.rx.frag_total)
                    THEN [panic |-> TRUE]
                    ELSE [panic |-> FALSE,
                          ack |-> create_from_frag_ids(last.rx.ids, last.rx.frag_total)])
    /\ UNCHANGED <<now, client, server, net, lost, app>>

\* Ack::into_iter(frag_total) and Ack::into_missing_iter(frag_total)
ReadAck ==
    /\ last.op = "create_from_frag_ids" /\ ~last.tx.panic
    /\ last' = Step("read_ack", last.rx,
                    [received |-> frag_ids_received_from_ack(last.tx.ack, last.rx.frag_total),
                     missing |-> frag_ids_missing_from_ack(last.tx.ack, last.rx.frag_total)])
    /\ UNCHANGED <<now, client, server, net, lost, app>>

\* FragmentSet::complete
CompleteSet ==
    /\ last.op = "set"
    /\ last' = Step("complete", [last.rx EXCEPT !.set = complete(@, now)], <<>>)
    /\ UNCHANGED <<now, client, server, net, lost, app>>

\* FragmentSet::generate_ack of a Complete set
GenerateAck ==
    /\ last.op = "complete"
    /\ last' = Step("generate_ack", last.rx, generate_ack(last.rx.set, 0))
    /\ UNCHANGED <<now, client, server, net, lost, app>>

BitmapNext == CreateFromFragIds \/ ReadAck \/ CompleteSet \/ GenerateAck

BitmapSpec == BitmapInit /\ [][BitmapNext]_vars

(***************************************************************************)
(* PacketSpec: the encoding and the decoding of udp_packet.rs on their     *)
(* own.  last holds a packet, then its datagram, then what the datagram    *)
(* decodes to; or a datagram from the wire, then what it decodes to.       *)
(***************************************************************************)
PacketBytes == {0, 255}

PacketPayloads == UNION {[1..n -> PacketBytes] : n \in 0..PayloadLen}

\* seq_ids: TLC has no integer above 2^31 - 1
PacketSeqIds == {0, 5, 2147483647}

\* the pairs (frag_id, frag_total) of a Fragment
FragmentLayouts ==
    {l \in {0, 5, 255} \X {0, 5, 255} : l[1] <= l[2]}

PacketInputs ==
    {PFragment(Fragment(s, l[1], l[2], m, d)) :
        s \in PacketSeqIds, l \in FragmentLayouts, m \in FragmentMetas, d \in PacketPayloads}
    \cup {PAck(s, d) : s \in PacketSeqIds,
                       d \in PacketPayloads \cup {[k \in 1..32 |-> 255]}}
    \cup {PSyn, PSynAck, PHeartbeat}
    \cup {PEnd(s) : s \in PacketSeqIds} \cup {PAbort(s) : s \in PacketSeqIds}

\* what follows the header in a datagram from the wire
DatagramTails == {<<>>, <<0>>, <<1>>, <<2>>, <<3>>, <<255>>, <<2, 9>>}

\* the bytes after the checksum
DatagramBodies ==
    {write_u32(s) \o <<i, t>> \o d :
        s \in {0, 5}, i \in {0, 1, 5, 6, 254, 255},
        t \in {0, 1, 2, 3, 4, 5, 6, 253, 254, 255}, d \in DatagramTails}

\* datagram d with another checksum
WithBadCrc(d) == [d EXCEPT ![1] = (@ + 1) % U8]

\* body b under its checksum and under another one, cut short, and a short
\* body under its checksum
DatagramsOf(b) ==
    LET cut(d) == {d, WithBadCrc(d), SubSeq(d, 1, 9), SubSeq(d, 1, 4), <<>>}
    IN With(crc32_check(b) \o b, cut)
       \cup {crc32_check(SubSeq(b, 1, 5)) \o SubSeq(b, 1, 5)}

DatagramInputs == UNION {DatagramsOf(b) : b \in DatagramBodies}

PacketInit ==
    /\ now = 0
    /\ client = [alive |-> TRUE, sock |-> set_status(connect(0).sock, Connected)]
    /\ server = RUdpServerNew
    /\ net = {}
    /\ lost = <<>>
    /\ app = NoEvents
    /\ last \in {Step("packet", p, <<>>) : p \in PacketInputs}
                 \cup {Step("datagram", [buffer |-> d], <<>>) : d \in DatagramInputs}

\* UdpPacket::from(&packet)
EncodePacket ==
    /\ last.op = "packet"
    /\ last' = Step("encode", last.rx, UdpPacketFrom(last.rx))
    /\ UNCHANGED <<now, client, server, net, lost, app>>

\* compute_packet of the datagram of a packet
DecodeEncoded ==
    /\ last.op = "encode"
    /\ last' = Step("decode", last.rx, compute_packet(last.tx))
    /\ UNCHANGED <<now, client, server, net, lost, app>>

\* compute_packet of a datagram from the wire
DecodeDatagram ==
    /\ last.op = "datagram"
    /\ last' = Step("compute_packet", last.rx, compute_packet(last.rx.buffer))
    /\ UNCHANGED <<now, client, server, net, lost, app>>

PacketNext == EncodePacket \/ DecodeEncoded \/ DecodeDatagram

PacketSpec == PacketInit /\ [][PacketNext]_vars

(***************************************************************************)
(* CombinerSpec: a FragmentCombiner on its own, pushed fragments of one    *)
(* seq_id whose frag_total and meta need not agree, and ticked.  now is    *)
(* the iteration; last.tx holds the combiner, the message the push has     *)
(* queued (taken by next_out_message), the acks of the tick, whether the   *)
(* call panicked, and the seq_ids of the sets that have held fragments of  *)
(* two frag_totals.                                                        *)
(***************************************************************************)
CombinerLayouts ==
    {<<0, 0>>, <<0, 1>>, <<1, 1>>, <<0, 2>>, <<1, 2>>, <<2, 2>>, <<0, 8>>, <<8, 8>>}

CombinerFragments ==
    {Fragment(0, l[1], l[2], m, <<l[1]>>) :
        l \in CombinerLayouts, m \in {"Forgettable", "Key"}}

\* the iterations between two ticks
CombinerSteps == {25, ACK_SEND_INTERVAL}

CombinerEnd == CombinerTicks * ACK_SEND_INTERVAL

\* the seq_ids of the sets of c that hold, or have held, two frag_totals
MixedAfter(mixed, c) ==
    {s \in DOMAIN c.pending_fragments :
        \/ s \in mixed
        \/ /\ is_incomplete(c.pending_fragments[s])
           /\ ~all_equal_frag_total(c.pending_fragments[s].state.fragments)}

CombinerInit ==
    /\ now = 0
    /\ client = [alive |-> TRUE, sock |-> set_status(connect(0).sock, Connected)]
    /\ server = RUdpServerNew
    /\ net = {}
    /\ lost = <<>>
    /\ app = NoEvents
    /\ last = Step("new", <<>>, [combiner |-> FragmentCombinerNew, out |-> <<>>,
                                 acks |-> <<>>, panic |-> FALSE, mixed |-> {}])

\* FragmentCombiner::push, then next_out_message
CombinerPush ==
    /\ ~last.tx.panic
    /\ \E f \in CombinerFragments :
       \E r \in {push(last.tx.combiner, f, now)} :
          last' = Step("push", f,
                       [combiner |-> [r.combiner EXCEPT !.out_messages = <<>>],
                        out |-> r.combiner.out_messages,
                        acks |-> <<>>,
                        panic |-> r.panic,
                        mixed |-> MixedAfter(last.tx.mixed, r.combiner)])
    /\ UNCHANGED <<now, client, server, net, lost, app>>

\* FragmentCombiner::tick at a later iteration
CombinerTick ==
    /\ ~last.tx.panic
    /\ \E d \in CombinerSteps :
          /\ now + d <= CombinerEnd
          /\ now' = now + d
          /\ \E pick \in CombinerPicks(last.tx.combiner) :
             \E r \in {combiner_tick(last.tx.combiner, now + d, pick)} :
                last' = Step("tick", <<>>,
                             [combiner |-> r.combiner,
                              out |-> <<>>,
                              acks |-> r.acks,
                              panic |-> r.panic,
                              mixed |-> MixedAfter(last.tx.mixed, r.combiner)])
    /\ UNCHANGED <<client, server, net, lost, app>>

CombinerNext == CombinerPush \/ CombinerTick

CombinerSpec == CombinerInit /\ [][CombinerNext]_vars

(***************************************************************************)
(* The sent-data tracker on its own: one message is registered under       *)
(* seq_id 0, acks of any bitmap arrive in any order, and the tracker       *)
(* ticks.  last.tx holds the tracker, the packets the last call handed to  *)
(* the socket, the frag ids some received ack reported, and the instant    *)
(* at which an ack reporting every fragment was first received.            *)
(***************************************************************************)
\* the waits between two calls: none, one step, or SEQ_DATA_CLEANUP_DELAY
TrackerWaits == {0, TrackerStep, SEQ_DATA_CLEANUP_DELAY}

TrackerEnd == SEQ_DATA_CLEANUP_DELAY + TrackerTicks * TrackerStep

\* the long wait happens once, the short ones TrackerTicks times around it
TrackerWait(d) ==
    /\ d \in TrackerWaits
    /\ now + d <= TrackerEnd
    /\ (now + d) % SEQ_DATA_CLEANUP_DELAY <= TrackerTicks * TrackerStep

\* the messages sent: data, type, priority
TrackerMessages ==
    {<<Payload(2), KeyMessage, "Highest">>,
     <<Payload(9), KeyMessage, "Highest">>,
     <<Payload(2), KeyExpirableMessage(10), "Highest">>,
     <<Payload(2), KeyMessage, "VeryHigh">>,
     <<Payload(2), Forgettable, "Highest">>}

\* the bitmaps of the acks received
TrackerAcks == {<<1>>, <<2>>, <<3>>, <<255>>, <<255, 1>>}

\* the frag ids the ack reports as received
ReportedBy(ack_bytes, frag_total) ==
    {i \in 0..frag_total : /\ i \div 8 < Len(ack_bytes)
                           /\ BitSet(ack_bytes[(i \div 8) + 1], i % 8)}

TrackerState(tracker, packets, acked, complete_ack) ==
    [tracker |-> tracker, packets |-> packets, acked |-> acked,
     complete_ack |-> complete_ack]

TrackerInit ==
    /\ now = 0
    /\ last = Step("new", <<>>, TrackerState(SentDataTrackerNew, <<>>, {}, None))
    /\ client = [alive |-> TRUE, sock |-> set_status(connect(0).sock, Connected)]
    /\ server = RUdpServerNew
    /\ net = {}
    /\ lost = <<>>
    /\ app = NoEvents

\* SentDataTracker::send_data of the one message, under seq_id 0
TrackerSend ==
    /\ last.op = "new"
    /\ \E m \in TrackerMessages :
         \E r \in {tracker_send_data(last.tx.tracker, 0, m[1], now, m[2], m[3])} :
            last' = Step("send_data", m, TrackerState(r.tracker, r.packets, {}, None))
    /\ UNCHANGED <<now, client, server, net, lost, app>>

\* SentDataTracker::receive_ack for seq_id 0, after a wait
TrackerReceiveAck ==
    /\ last.op /= "new"
    /\ \E d \in TrackerWaits, ack \in TrackerAcks :
         /\ TrackerWait(d)
         /\ now' = now + d
         /\ \E t \in {receive_ack(last.tx.tracker, 0, ack, now + d)} :
              last' = Step("receive_ack", ack,
                           IF 0 \in DOMAIN last.tx.tracker.sets
                           THEN TrackerState(t, <<>>,
                                    last.tx.acked \cup
                                        ReportedBy(ack, last.tx.tracker.sets[0].frag_total),
                                    IF /\ last.tx.complete_ack = None
                                       /\ ReportedBy(ack, last.tx.tracker.sets[0].frag_total)
                                             = 0..last.tx.tracker.sets[0].frag_total
                                    THEN now + d ELSE last.tx.complete_ack)
                           ELSE TrackerState(t, <<>>, last.tx.acked, last.tx.complete_ack))
    /\ UNCHANGED <<client, server, net, lost, app>>

\* SentDataTracker::next_tick, after a wait
TrackerTick ==
    /\ last.op /= "new"
    /\ \E d \in TrackerWaits :
         /\ TrackerWait(d)
         /\ now' = now + d
         /\ \E r \in {tracker_next_tick(last.tx.tracker, now + d)} :
              last' = Step("next_tick", <<>>,
                           TrackerState(r.tracker, r.packets, last.tx.acked,
                                        last.tx.complete_ack))
    /\ UNCHANGED <<client, server, net, lost, app>>

TrackerNext == TrackerSend \/ TrackerReceiveAck \/ TrackerTick

TrackerSpec == TrackerInit /\ [][TrackerNext]_vars

(***************************************************************************)
(* BeatSpec: two connected peers that tick and send one message at most.   *)
(* Each side                                                               *)
(* has its own heartbeat_delay < timeout_delay and ticks at intervals      *)
(* shorter than its timeout_delay - heartbeat_delay.  The network loses    *)
(* nothing and hands a datagram to the first tick after it was sent.       *)
(***************************************************************************)
\* the delays of a side: heartbeat_delay, timeout_delay
BeatDelays == {<<DEFAULT_HEARTBEAT_DELAY, DEFAULT_TIMEOUT_DELAY>>,
               <<DEFAULT_HEARTBEAT_DELAY, 3 * DEFAULT_HEARTBEAT_DELAY>>}

BeatWaits == {0, BeatStep, 8 * BeatStep}

BeatEnd == BeatTicks * BeatStep

\* the socket s may tick at instant t
BeatInTime(s, t) == t - s.cached_now < s.timeout_delay - s.heartbeat_delay

BeatInit ==
    /\ now = 0
    /\ \E c \in BeatDelays, sv \in BeatDelays :
         /\ client = [alive |-> TRUE,
                      sock |-> set_heartbeat_delay(
                                 set_timeout_delay(set_status(connect(0).sock, Connected), c[2]),
                                 c[1])]
         /\ server = [RUdpServerNew EXCEPT
                        !.remotes = MapPut(EmptyMap, ClientAddr,
                                      set_heartbeat_delay(
                                        set_timeout_delay(new_incoming(0).sock, sv[2]), sv[1]))]
    /\ net = {}
    /\ lost = <<>>
    /\ app = NoEvents
    /\ last = Step("connect", <<>>, <<>>)

BeatClientTick ==
    \E w \in BeatWaits :
        /\ now + w <= BeatEnd
        /\ BeatInTime(client.sock, now + w)
        /\ \A a \in DOMAIN server.remotes : BeatInTime(server.remotes[a], now + w)
        /\ ClientTickAt(client, server, now + w, AllInFlight(ClientAddr),
                        net \ InFlight(ClientAddr))

BeatServerTick ==
    \E w \in BeatWaits :
        /\ now + w <= BeatEnd
        /\ BeatInTime(client.sock, now + w)
        /\ \A a \in DOMAIN server.remotes : BeatInTime(server.remotes[a], now + w)
        /\ ServerTickAt(client, server, now + w, AllInFlight(ServerAddr),
                        net \ InFlight(ServerAddr))

\* the application may send one message, or none
BeatSend == ClientSendData(Payload(1), Forgettable, "Normal")

BeatNext == BeatClientTick \/ BeatServerTick \/ BeatSend

BeatSpec == BeatInit /\ [][BeatNext]_vars

(***************************************************************************)
(* PingSpec: the ping handler on its own.  ping and pong are called with   *)
(* any of three seq_ids, at instants a second, or the 5 s of a lost ping   *)
(* less or plus a millisecond, apart.  last.tx is the handler.             *)
(***************************************************************************)
PingWaits == {0, 1000, PING_LOST_SECS * 1000 - 1, PING_LOST_SECS * 1000}

PingSeqIds == {0, 1, 2}

PingEnd == PingSecs * 1000

PingInit ==
    /\ now = 0
    /\ client = [alive |-> TRUE, sock |-> set_status(connect(0).sock, Connected)]
    /\ server = RUdpServerNew
    /\ net = {}
    /\ lost = <<>>
    /\ app = NoEvents
    /\ last = Step("new", None, PingHandlerNew)

\* PingHandler::ping(seq_id), Instant::now() being now + w
PingPing ==
    /\ \E w \in PingWaits, seq_id \in PingSeqIds :
         /\ now + w <= PingEnd
         /\ now' = now + w
         /\ last' = Step("ping", seq_id, ping(last.tx, seq_id, now + w))
    /\ UNCHANGED <<client, server, net, lost, app>>

\* PingHandler::pong(seq_id), Instant::now() being now + w
PingPong ==
    /\ \E w \in PingWaits, seq_id \in PingSeqIds :
         /\ now + w <= PingEnd
         /\ now' = now + w
         /\ last' = Step("pong", seq_id, pong(last.tx, seq_id, now + w))
    /\ UNCHANGED <<client, server, net, lost, app>>

PingNext == PingPing \/ PingPong

PingSpec == PingInit /\ [][PingNext]_vars

(***************************************************************************)
(* Properties of the handshake, the timeout and the finished statuses      *)
(***************************************************************************)
HasChild == ClientAddr \in DOMAIN server.remotes

Child == server.remotes[ClientAddr]

\* the child of the client is kept by the retain of the next server tick
ChildStays == HasChild /\ ~should_clear(Child)

CountOf(seq, x) == Cardinality({k \in DOMAIN seq : seq[k] = x})

PktsOf(datagrams) == [k \in 1..Len(datagrams) |-> datagrams[k].pkt]

FirstIndex(seq, x) == CHOOSE k \in DOMAIN seq : seq[k] = x /\ \A j \in 1..(k - 1) : seq[j] # x

Ends(packet) == packet.kind \in {"End", "Abort"}

\* the server, after the retain, meets a Syn of an address without child
SynFromUnknown ==
    /\ last'.op = "server_tick"
    /\ ~ChildStays
    /\ CountOf(PktsOf(last'.rx), PSyn) > 0

\* the server right after the first Syn of the batch rx
AfterFirstSyn(rx, t) ==
    server_receive(server, SubSeq(rx, 1, FirstIndex(PktsOf(rx), PSyn)), t)

\* C6: a Syn from an address without child registers one child for it, whose
\* status is Connected and whose queue holds one Connected event, and one SynAck
\* is transmitted to that address; the rest of the tick adds no second SynAck
\* and no second Connected event.
SynRegistersOneConnectedChild ==
    [][SynFromUnknown =>
        /\ DOMAIN AfterFirstSyn(last'.rx, now').remotes = {ClientAddr}
        /\ AfterFirstSyn(last'.rx, now').remotes[ClientAddr].status = Connected
        /\ AfterFirstSyn(last'.rx, now').remotes[ClientAddr].events = <<ConnectedEvent>>
        /\ AfterFirstSyn(last'.rx, now').tx = <<Datagram(ServerAddr, ClientAddr, PSynAck)>>
        /\ HasChild'
        /\ CountOf(Child'.events, ConnectedEvent) = 1
        /\ CountOf(last'.tx, Datagram(ServerAddr, ClientAddr, PSynAck)) = 1]_vars

\* a server tick that received the Syn twice in one batch and answered one SynAck
SynTwiceInOneBatch ==
    /\ last.op = "server_tick"
    /\ PktsOf(last.rx) = <<PSyn, PSyn>>
    /\ CountOf(last.tx, Datagram(ServerAddr, ClientAddr, PSynAck)) = 1
    /\ HasChild /\ Child.status = Connected /\ Child.events = <<ConnectedEvent>>

\* the client tick processes a SynAck while the status is still SynSent
SynAckInSynSent(pk) ==
    /\ last'.op = "client_tick"
    /\ client.sock.status.kind = "SynSent"
    /\ CountOf(pk, PSynAck) > 0
    /\ \A j \in 1..FirstIndex(pk, PSynAck) : ~Ends(pk[j])

\* the client tick processes nothing but SynAck, in a status that is not SynSent
SynAckElsewhere(pk) ==
    /\ last'.op = "client_tick"
    /\ client.sock.status.kind # "SynSent"
    /\ pk # <<>>
    /\ \A j \in DOMAIN pk : pk[j] = PSynAck

\* C7: a SynAck processed in SynSent makes the client Connected and queues one
\* Connected event; a SynAck processed in another status changes neither the
\* status nor the queue; no socket ever holds two Connected events.
SynAckConnectsOnce ==
    [][/\ SynAckInSynSent(PacketsFrom(last'.rx, ServerAddr)) =>
            /\ CountOf(client'.sock.events, ConnectedEvent)
                 = CountOf(client.sock.events, ConnectedEvent) + 1
            /\ \/ client'.sock.status = Connected
               \/ \E j \in DOMAIN last'.rx : Ends(last'.rx[j].pkt)
       /\ SynAckElsewhere(PacketsFrom(last'.rx, ServerAddr)) =>
            /\ client'.sock.status = client.sock.status
            /\ client'.sock.events = client.sock.events
       /\ CountOf(client'.sock.events, ConnectedEvent) <= 1
       /\ HasChild' => CountOf(Child'.events, ConnectedEvent) <= 1]_vars

\* the client, SynSent until then, has received the SynAck twice in its tick
SynAckTwiceInOneBatch ==
    /\ now = 10000
    /\ last.op = "client_tick"
    /\ PktsOf(last.rx) = <<PSynAck, PSynAck>>
    /\ client.sock.status = Connected
    /\ client.sock.events = <<ConnectedEvent>>

\* the timeout check of a tick at t that takes socket s to s2; got tells whether
\* the tick received a datagram of the remote
TimeoutRule(s, s2, got, t) ==
    /\ (~is_finished(s.status) /\ ~got /\ t - s.last_received_message >= s.timeout_delay)
         => s2.status = TimeoutError(t) /\ s2.events = Append(s.events, Timeout)
    /\ ((got \/ t - s.last_received_message < s.timeout_delay)
          /\ s.status.kind # "TimeoutError")
         => s2.status.kind # "TimeoutError"

\* C8: a tick of a socket that is not finished, timeout_delay or more after the
\* last datagram of its remote, sets the status to TimeoutError(now) and queues
\* one Timeout event; a tick less than timeout_delay after it does not time out.
TickTimesOut ==
    [][/\ last'.op = "client_tick" =>
            TimeoutRule(client.sock, client'.sock,
                        PacketsFrom(last'.rx, ServerAddr) # <<>>, now')
       /\ (last'.op = "server_tick" /\ ChildStays) =>
            TimeoutRule(Child, Child', PacketsFrom(last'.rx, ClientAddr) # <<>>, now')]_vars

\* the client has timed out exactly timeout_delay after connect
ClientTimedOutOnTime ==
    /\ last.op = "client_tick"
    /\ client.sock.status = TimeoutError(DEFAULT_TIMEOUT_DELAY)
    /\ client.sock.last_received_message = 0
    /\ CountOf(client.sock.events, Timeout) = 1

\* C9: an operation of a socket whose status is finished, or a tick that
\* finishes it, transmits no datagram.
FinishedTransmitsNothing ==
    [][/\ (/\ last'.op \in {"client_tick", "send_data", "terminate", "drop"}
           /\ is_finished(client.sock.status) \/ is_finished(client'.sock.status))
            => last'.tx = <<>>
       /\ (/\ last'.op = "server_tick"
           /\ ChildStays
           /\ is_finished(Child.status) \/ is_finished(Child'.status))
            => last'.tx = <<>>]_vars

\* send_data on a client that has timed out: the fragment is tracked, not sent
FinishedClientSendsData ==
    /\ last.op = "send_data"
    /\ last.tx = <<>>
    /\ is_finished(client.sock.status)
    /\ client.sock.next_local_seq_id = 1

\* C10: once the status of a socket is finished it never changes again,
\* timestamp included.
FinishedStatusIsTerminal ==
    [][/\ is_finished(client.sock.status) => client'.sock.status = client.sock.status
       /\ (HasChild /\ HasChild' /\ is_finished(Child.status)
             /\ ~(last'.op = "server_tick" /\ should_clear(Child)))
            => Child'.status = Child.status]_vars

(***************************************************************************)
(* Properties of the data plane                                            *)
(***************************************************************************)
Tracked == client.sock.sent_data_tracker.sets

DataEvents(events) == {k \in DOMAIN events : events[k].kind = "Data"}

\* C1: the receiving socket never queues more Data events than messages were
\* sent: no second Data event for a seq_id, whatever the network repeats.
DataQueuedOnce ==
    HasChild => Cardinality(DataEvents(Child.events)) <= client.sock.next_local_seq_id

\* the combiner of the child holds every fragment of seq_id, or did and has
\* queued the message since
ReceivedAll(seq_id) ==
    /\ HasChild
    /\ \/ /\ seq_id \in DOMAIN Child.packet_handler.fragment_combiner.pending_fragments
          /\ ~is_incomplete(Child.packet_handler.fragment_combiner.pending_fragments[seq_id])
       \/ Data(Tracked[seq_id].data) \in Range(Child.events)

\* C3: the sender holds a message as complete only if the combiner of the peer
\* has received every fragment of it.
CompleteOnlyIfReceived ==
    \A seq_id \in DOMAIN Tracked :
        is_seq_id_received(client.sock.sent_data_tracker, seq_id) = "Ok(true)"
            => ReceivedAll(seq_id)

\* bit i of an ack bitmap: fragment i is reported as received
Reported(ack_bytes, i) ==
    /\ i \div 8 < Len(ack_bytes)
    /\ BitSet(ack_bytes[(i \div 8) + 1], i % 8)

\* the frag ids of seq_id among the datagrams tx
FragIdsIn(tx, seq_id) ==
    {tx[k].pkt.f.frag_id : k \in {j \in DOMAIN tx : /\ tx[j].pkt.kind = "Fragment"
                                                    /\ tx[j].pkt.f.seq_id = seq_id}}

\* C4: a tick that retransmits a set transmits the fragments that the stored
\* bitmap does not report as received, all of them and no other; every
\* fragment when no ack is stored.
RetransmitsExactlyMissing ==
    [][last'.op = "client_tick" =>
        \A seq_id \in DOMAIN Tracked' :
            FragIdsIn(last'.tx, seq_id) # {} =>
                FragIdsIn(last'.tx, seq_id) =
                    IF Tracked'[seq_id].last_received_ack.at # None
                    THEN {i \in 0..Tracked'[seq_id].frag_total :
                            ~Reported(Tracked'[seq_id].last_received_ack.ack, i)}
                    ELSE 0..Tracked'[seq_id].frag_total]_vars

(***************************************************************************)
(* Properties of the behaviours that never end                             *)
(***************************************************************************)
\* the network has lost nothing but the SynAck of the server
OnlySynAckLost == lost \in {<<>>, <<Datagram(ServerAddr, ClientAddr, PSynAck)>>}

\* C5: a client that keeps ticking leaves SynSent, it becomes Connected or
\* TimeoutError, even when the SynAck of the server is lost and every other
\* datagram is delivered.
ClientLeavesSynSent ==
    []OnlySynAckLost =>
        <>(client.sock.status = Connected \/ client.sock.status.kind = "TimeoutError")

NeitherFinished ==
    /\ ~is_finished(client.sock.status)
    /\ HasChild /\ ~is_finished(Child.status)

\* C2: while neither peer is finished, a KeyMessage that has been sent is
\* queued as Data by the receiver and recorded as complete by the sender.
KeyMessageDelivered ==
    []NeitherFinished =>
        /\ (client.sock.next_local_seq_id > 0)
              ~> (HasChild /\ Data(Payload(9)) \in Range(Child.events))
        /\ (client.sock.next_local_seq_id > 0)
              ~> (is_seq_id_received(client.sock.sent_data_tracker, 0) = "Ok(true)")

(***************************************************************************)
(* Properties of the end of a connection                                   *)
(***************************************************************************)
TerminalEvents(events) ==
    {k \in DOMAIN events : events[k] \in {Timeout, Ended, Aborted}}

\* the queue of socket s holds one terminal event if s is finished, none if not
TerminalEventRule(s) ==
    Cardinality(TerminalEvents(s.events)) = IF is_finished(s.status) THEN 1 ELSE 0

\* C11: over the life of a socket at most one terminal event (Timeout, Ended or
\* Aborted) is queued: entering a finished status queues exactly one, and
\* nothing that happens afterwards queues another.
OneTerminalEvent ==
    /\ TerminalEventRule(client.sock)
    /\ HasChild => TerminalEventRule(Child)

\* the client has called terminate while Connected (nothing else transmits End)
Terminated ==
    /\ ~client.alive /\ client.sock.status = Connected
    /\ \E g \in net : g.pkt.kind = "End"

\* C12: a Connected client that calls terminate transmits exactly one
\* End(last_seq_id) and no Abort; the child of a client that has called
\* terminate queues Ended and never Aborted.
TerminateSendsOneEnd ==
    [][/\ (last'.op = "terminate" /\ client.sock.status = Connected) =>
            PktsOf(last'.tx) = <<PEnd(saturating_sub_1(client.sock.next_local_seq_id))>>
       /\ (Terminated' /\ HasChild') => Aborted \notin Range(Child'.events)]_vars

\* the Aborts among the packets of the client in the batch rx
AbortsIn(rx) == {k \in DOMAIN rx : rx[k].src = ClientAddr /\ rx[k].pkt.kind = "Abort"}

\* C13: dropping a socket that is Connected, SynSent or SynReceived transmits
\* exactly one Abort(last_seq_id), dropping a finished socket transmits nothing;
\* a remote that processes the Abort enters TerminateReceived and queues Aborted.
DropSendsOneAbort ==
    [][/\ last'.op = "drop" =>
            PktsOf(last'.tx) =
                IF client.sock.status.kind \in {"Connected", "SynSent", "SynReceived"}
                THEN <<PAbort(saturating_sub_1(client.sock.next_local_seq_id))>>
                ELSE <<>>
       /\ (last'.op = "server_tick" /\ ChildStays /\ AbortsIn(last'.rx) # {}) =>
            /\ Child'.status = TerminateReceived(now')
            /\ CountOf(Child'.events, Aborted)
                 = CountOf(Child.events, Aborted) + Cardinality(AbortsIn(last'.rx))]_vars

\* the child has processed the Abort of a client dropped while Connected, after
\* its first message
ChildAbortedByDrop ==
    /\ last.op = "server_tick"
    /\ AbortsIn(last.rx) # {}
    /\ ~client.alive /\ client.sock.status = Connected
    /\ client.sock.next_local_seq_id = 1
    /\ ~Terminated
    /\ HasChild /\ Child.status = TerminateReceived(now)
    /\ Aborted \in Range(Child.events)

\* C14: send_data on a socket whose status is finished is a no-op: it transmits
\* nothing and leaves next_local_seq_id, the sets of the tracker and the ping
\* tracker as they were.
SendOnFinishedIsNoOp ==
    [][(last'.op = "send_data" /\ is_finished(client.sock.status)) =>
        /\ last'.tx = <<>>
        /\ client'.sock.next_local_seq_id = client.sock.next_local_seq_id
        /\ client'.sock.sent_data_tracker = client.sock.sent_data_tracker
        /\ client'.sock.ping_handler = client.sock.ping_handler]_vars

(***************************************************************************)
(* Properties of the server and its remotes                                *)
(***************************************************************************)
FromStranger(rx) == {k \in DOMAIN rx : rx[k].src = StrangerAddr}

\* what a server tick at t that receives rx may make of server sv
TickResults(sv, rx, t) ==
    {server_inner_ticks(server_receive(sv, rx, t), p, t) :
        p \in ServerPicks(server_receive(sv, rx, t))}

\* the addresses that sent a Syn in the batch rx
SynSenders(rx) == {rx[k].src : k \in {j \in DOMAIN rx : rx[j].pkt.kind = "Syn"}}

\* C15: datagrams that are not a Syn, from an address without child, change
\* nothing: the tick ends as it would have without them (same children, same
\* events, same transmissions), the address gets no child and is sent nothing;
\* the map of remotes gains an entry only for an address that sent a Syn.
UnknownNonSynIgnored ==
    [][last'.op = "server_tick" =>
        /\ (StrangerAddr \notin DOMAIN server.remotes
              /\ StrangerAddr \notin SynSenders(last'.rx)) =>
                /\ server' \in TickResults(server,
                       SelectSeq(last'.rx, LAMBDA g : g.src # StrangerAddr), now')
                /\ StrangerAddr \notin DOMAIN server'.remotes
                /\ \A k \in DOMAIN last'.tx : last'.tx[k].dst # StrangerAddr
        /\ (DOMAIN server'.remotes \ DOMAIN server.remotes) \subseteq SynSenders(last'.rx)]_vars

\* a server tick has received a fragment and an undecodable datagram of the
\* stranger, between datagrams of the client, and has no child for the stranger
StrangerIgnored ==
    /\ last.op = "server_tick"
    /\ {last.rx[k].pkt.kind : k \in FromStranger(last.rx)} = {"Raw", "Fragment"}
    /\ \E k \in DOMAIN last.rx : last.rx[k].src = ClientAddr
    /\ HasChild
    /\ StrangerAddr \notin DOMAIN server.remotes

\* the child of the client is finished and has been for 10 s or more at instant t
FinishedAndOldAt(t) ==
    is_finished(Child.status) /\ t - Child.status.t >= FINISHED_OLD_SECS * 1000

\* C16: a server tick removes a child only if the child is finished and has
\* been for 10 s or more, and the first tick at which that holds removes it; a
\* child that is not finished is never removed.
ChildRemovedWhenOld ==
    [][(last'.op = "server_tick" /\ HasChild /\ ClientAddr \notin SynSenders(last'.rx)) =>
        /\ ~HasChild' => FinishedAndOldAt(now')
        /\ FinishedAndOldAt(now') => ~HasChild'
        /\ ~is_finished(Child.status) => HasChild']_vars

(***************************************************************************)
(* Properties of the event queues                                          *)
(***************************************************************************)
\* the log of the events of the client socket, and of the child of the client
ClientHistory == app.client \o client.sock.events

ChildHistory == app.child \o (IF HasChild THEN Child.events ELSE <<>>)

IsPrefix(a, b) == Len(a) <= Len(b) /\ SubSeq(b, 1, Len(a)) = a

\* the frag ids that socket s holds of each message not yet complete
HeldBy(s) ==
    [seq_id \in 0..(EventMessages - 1) |->
        IF /\ seq_id \in DOMAIN s.packet_handler.fragment_combiner.pending_fragments
           /\ is_incomplete(s.packet_handler.fragment_combiner.pending_fragments[seq_id])
        THEN DOMAIN s.packet_handler.fragment_combiner.pending_fragments[seq_id].state.fragments
        ELSE {}]

NothingHeld == [seq_id \in 0..(EventMessages - 1) |-> {}]

\* the frag ids of the message of fragment f seen before packet k of the batch
SeenBefore(pkts, k, f, held) ==
    held[f.seq_id] \cup {pkts[j].f.frag_id : j \in {i \in 1..(k - 1) :
                            pkts[i].kind = "Fragment" /\ pkts[i].f.seq_id = f.seq_id}}

\* packet k of the batch is the fragment that completes its message
Completes(pkts, k, held) ==
    /\ pkts[k].f.frag_id \notin SeenBefore(pkts, k, pkts[k].f, held)
    /\ SeenBefore(pkts, k, pkts[k].f, held) \cup {pkts[k].f.frag_id} = 0..pkts[k].f.frag_total

\* the event that processing packet k of the batch may queue
EventAt(pkts, k, held) ==
    CASE pkts[k].kind \in {"Syn", "SynAck"} -> <<ConnectedEvent>>
      [] pkts[k].kind = "Fragment" ->
            IF ~Completes(pkts, k, held) THEN <<>>
            ELSE IF pkts[k].f.frag_total = 0 THEN <<Data(pkts[k].f.data)>>
            ELSE <<Data(EventPayload(pkts[k].f.seq_id))>>
      [] pkts[k].kind = "End" -> <<Ended>>
      [] pkts[k].kind = "Abort" -> <<Aborted>>
      [] OTHER -> <<>>

\* the events that the packets of a batch may queue, in the order of the batch
EventsOf(pkts, held) == Concat([k \in 1..Len(pkts) |-> EventAt(pkts, k, held)])

RECURSIVE IsSubSeq(_, _)
\* a is b less some of its elements
IsSubSeq(a, b) ==
    IF a = <<>> THEN TRUE
    ELSE IF b = <<>> THEN FALSE
    ELSE IF Head(a) = Head(b) THEN IsSubSeq(Tail(a), Tail(b))
    ELSE IsSubSeq(a, Tail(b))

\* a tick that received pkts, holding the fragments held, has added the events
\* new to a log: events of the packets in the order of the packets, then Timeout
\* if the socket timed out
InPacketOrder(new, pkts, held) ==
    \/ IsSubSeq(new, EventsOf(pkts, held))
    \/ /\ new # <<>> /\ new[Len(new)] = Timeout
       /\ IsSubSeq(SubSeq(new, 1, Len(new) - 1), EventsOf(pkts, held))

Added(old, log) == SubSeq(log, Len(old) + 1, Len(log))

FragmentsIn(rx, seq_id) ==
    {rx[k].pkt.f : k \in {j \in DOMAIN rx : /\ rx[j].pkt.kind = "Fragment"
                                            /\ rx[j].pkt.f.seq_id = seq_id}}

\* the metas of the fragments of seq_id that the child holds or receives in rx
MetaSeen(seq_id, rx) ==
    {f.frag_meta : f \in FragmentsIn(rx, seq_id)}
      \cup (IF HasChild
               /\ seq_id \in DOMAIN Child.packet_handler.fragment_combiner.pending_fragments
            THEN {Child.packet_handler.fragment_combiner.pending_fragments[seq_id].fragment_meta}
            ELSE {})

AcksIn(tx) == {tx[k].pkt : k \in {j \in DOMAIN tx : tx[j].pkt.kind = "Ack"}}

\* C18: a Forgettable message generates no ack traffic on the receiver: a tick
\* emits an Ack only for a seq_id whose fragments carry another meta, be the
\* set incomplete or complete, at every tick.
NoAckForForgettable ==
    [][last'.op = "server_tick" =>
        \A ack \in AcksIn(last'.tx) :
            /\ MetaSeen(ack.seq_id, last'.rx) # {}
            /\ "Forgettable" \notin MetaSeen(ack.seq_id, last'.rx)]_vars

\* the child has completed a Forgettable message in a tick and sent no Ack
ForgettableNotAcked ==
    /\ last.op = "server_tick"
    /\ {f.frag_meta : f \in FragmentsIn(last.rx, 0)} = {"Forgettable"}
    /\ {f.frag_id : f \in FragmentsIn(last.rx, 0)} = {0, 1}
    /\ HasChild /\ Data(Payload(2)) \in Range(Child.events)
    /\ last.tx = <<>>

\* C20: a message sent with KeyExpirableMessage(0) behaves as one sent with
\* Forgettable: the sender keeps no set for it and arms no RTT measurement, no
\* tick retransmits a fragment of it, and the receiver generates no Ack for it.
ZeroExpirableAsForgettable ==
    /\ DOMAIN Tracked = {}
    /\ client.sock.ping_handler = PingHandlerNew
    /\ last.op = "client_tick" => \A k \in DOMAIN last.tx : last.tx[k].pkt.kind # "Fragment"
    /\ last.op = "server_tick" => AcksIn(last.tx) = {}

\* the set has been complete for SEQ_DATA_CLEANUP_DELAY at instant t
CleanedUpAt(set, t) ==
    set.complete_since # None /\ t - set.complete_since >= SEQ_DATA_CLEANUP_DELAY

\* C19: a KeyExpirable(d) message sent when the sender's clock shows t (an
\* instant not later than the call) expires at t + d: a tick with now > t + d
\* transmits no fragment of it and removes its set, acknowledged or not, and no
\* tick before removes it; a KeyMessage set is never removed because of expiry.
ExpiredSetRemoved ==
    [][/\ (/\ last'.op = "send_data"
           /\ client.sock.next_local_seq_id \in DOMAIN Tracked'
           /\ Tracked'[client.sock.next_local_seq_id].expiration_type.kind = "ExpirableKey") =>
            /\ Tracked'[client.sock.next_local_seq_id].expiration_type.expiration
                 = client.sock.cached_now + ExpiryDelay
            /\ client.sock.cached_now <= now
       /\ last'.op = "client_tick" =>
            \A seq_id \in DOMAIN Tracked :
                IF Tracked[seq_id].expiration_type.kind = "ExpirableKey"
                THEN IF now' > Tracked[seq_id].expiration_type.expiration
                     THEN /\ seq_id \notin DOMAIN Tracked'
                          /\ FragIdsIn(last'.tx, seq_id) = {}
                     ELSE \/ seq_id \in DOMAIN Tracked'
                          \/ CleanedUpAt(Tracked[seq_id], now')
                ELSE \/ seq_id \in DOMAIN Tracked'
                     \/ CleanedUpAt(Tracked[seq_id], now')]_vars

\* a client tick after the deadline has removed the set of a KeyExpirable message
\* that the peer has received and acknowledged
AckedSetExpired ==
    /\ last.op = "client_tick"
    /\ now > ExpiryDelay
    /\ client.sock.next_local_seq_id = 1
    /\ DOMAIN Tracked = {}
    /\ client.sock.ping_handler.current_ping # None
    /\ HasChild /\ Data(Payload(2)) \in Range(Child.events)

(***************************************************************************)
(* Properties of the seq_ids and of fragmentation                          *)
(***************************************************************************)
\* the fragments transmitted by the last operation
SentFragments ==
    {last.tx[k].pkt.f : k \in {j \in DOMAIN last.tx : last.tx[j].pkt.kind = "Fragment"}}

\* C21: every call of send_data transmits its message under the seq_id that
\* next_local_seq_id held before the call, which the tracker does not hold
\* yet, and leaves next_local_seq_id greater by exactly one, without a panic;
\* no other operation changes next_local_seq_id.  With the first seq_id 0,
\* the k-th call uses seq_id k - 1 and no seq_id is used twice.
SeqIdsCountSends == [][
    /\ last.op = "connect" => client.sock.next_local_seq_id = 0
    /\ IF last'.op = "send_data"
       THEN /\ ~client'.sock.panicked
            /\ SentFragments' # {}
            /\ \A f \in SentFragments' : f.seq_id = client.sock.next_local_seq_id
            /\ client.sock.next_local_seq_id \notin DOMAIN Tracked
            /\ DOMAIN Tracked' \ DOMAIN Tracked \subseteq {client.sock.next_local_seq_id}
            /\ client'.sock.next_local_seq_id = client.sock.next_local_seq_id + 1
       ELSE client'.sock.next_local_seq_id = client.sock.next_local_seq_id]_vars

\* the third message has been sent under seq_id 2, after a message without
\* an ack and one with an ack that is still registered
ThirdSendUsesTwo ==
    /\ last.op = "send_data"
    /\ \E f \in SentFragments : f.seq_id = 2
    /\ client.sock.next_local_seq_id = 3
    /\ DOMAIN Tracked # {}
    /\ DOMAIN Tracked # 0..2

\* C22: send_data with a message of more than 256 fragments returns to its
\* caller (no panic) and has no effect: it transmits nothing and leaves
\* next_local_seq_id, the sent-data tracker and the ping handler as they were.
OversizeSendHasNoEffect == [][
    last'.op = "send_data_oversize" =>
        /\ ~client'.sock.panicked
        /\ last'.tx = <<>>
        /\ net' = net
        /\ client'.sock.next_local_seq_id = client.sock.next_local_seq_id
        /\ client'.sock.sent_data_tracker = client.sock.sent_data_tracker
        /\ client'.sock.ping_handler = client.sock.ping_handler]_vars

(***************************************************************************)
(* Properties of the receive loop                                          *)
(***************************************************************************)
\* what a tick has received before its first failed receive
BeforeRecvError(rx) ==
    SubSeq(rx, 1, (CHOOSE k \in DOMAIN rx : rx[k] = RecvError
                                            /\ \A j \in 1..(k - 1) : rx[j] # RecvError) - 1)

\* C23: a tick one of whose receives fails with an error other than
\* WouldBlock ends at that receive, returning the error: it does not panic,
\* it has queued what it received before the error and nothing else, and it
\* has not run inner_tick, so it transmits nothing.
RecvErrorEndsTick == [][
    /\ (last'.op = "client_tick" /\ RecvError \in Range(last'.rx)) =>
           /\ ~client'.sock.panicked
           /\ client'.sock = client_receive(client.sock, BeforeRecvError(last'.rx), now')
           /\ last'.tx = <<>>
    /\ (last'.op = "server_tick" /\ RecvError \in Range(last'.rx)) =>
           /\ ~server'.panicked
           /\ server' = server_receive(server, BeforeRecvError(last'.rx), now')]_vars

(***************************************************************************)
(* Properties of fragmentation and reassembly                              *)
(***************************************************************************)
\* the fragments of a message of n fragments sent as seq_id with meta frag_meta
FragmentsOf(n, seq_id, frag_meta) ==
    [k \in 1..n |-> PFragment(Fragment(seq_id, k - 1, n - 1, frag_meta,
                                        Chunk(Payload(n), k - 1)))]

\* C25: send_data of a message of n fragments, 1 <= n <= 256, does not panic
\* and transmits exactly the n fragments of the message, with frag_id 0 to
\* n - 1 in this order, each with frag_total n - 1, the seq_id of the message
\* and one meta; no fragment has a frag_id above its frag_total.
FragmentsInOrder == [][
    last'.op = "send_data" =>
        /\ ~client'.sock.panicked
        /\ \E n \in FragCounts : \E frag_meta \in FragmentMetas :
               PktsOf(last'.tx) = FragmentsOf(n, client.sock.next_local_seq_id, frag_meta)
        /\ \A f \in SentFragments' : f.frag_id <= f.frag_total]_vars

\* the seq_ids of the fragments in rx
SeqIdsIn(rx) ==
    {rx[k].pkt.f.seq_id : k \in {j \in DOMAIN rx : rx[j].pkt.kind = "Fragment"}}

\* rx holds every fragment of message seq_id at least once, and the fragments
\* of no other message
HoldsMessage(rx, seq_id) ==
    /\ SeqIdsIn(rx) = {seq_id}
    /\ \A f \in FragmentsIn(rx, seq_id) :
           {g.frag_id : g \in FragmentsIn(rx, seq_id)} = 0..f.frag_total

\* the Data events among the events that follow old in log
DataAdded(old, log) == SelectSeq(Added(old, log), LAMBDA e : e.kind = "Data")

\* C24: fragmentation yields every fragment of the message (frag_id 0 to
\* frag_total), and a combiner that holds nothing of the message and is
\* pushed these fragments, in any order, each at least once, queues exactly
\* one message, whose bytes are the payload.
ReassemblyGivesPayload == [][
    /\ last'.op = "send_data" =>
           /\ SentFragments' # {}
           /\ \A f \in SentFragments' :
                  {g.frag_id : g \in SentFragments'} = 0..f.frag_total
    /\ (last'.op = "server_tick" /\ HasChild) =>
           \A seq_id \in SeqIdsIn(last'.rx) :
              (/\ HoldsMessage(last'.rx, seq_id)
               /\ seq_id \notin DOMAIN Child.packet_handler.fragment_combiner.pending_fragments)
              => \E f \in FragmentsIn(last'.rx, seq_id) :
                    DataAdded(Child.events, Child'.events)
                        = <<Data(Payload(f.frag_total + 1))>>]_vars

(***************************************************************************)
(* Properties of the ack bitmaps                                           *)
(***************************************************************************)
\* the bytes of a bitmap for frag_total: ceil((frag_total + 1) / 8)
BitmapBytes(frag_total) == (frag_total + 8) \div 8

\* C26: for every frag_total of 0 to 255 and every set ids of frag ids up to
\* frag_total, create_from_frag_ids does not panic and returns
\* ceil((frag_total + 1) / 8) bytes, in which the bits read as received are
\* ids and those read as missing are the other frag ids up to frag_total.
BitmapReadsBack ==
    /\ last.op = "create_from_frag_ids" =>
           /\ ~last.tx.panic
           /\ Len(last.tx.ack) = BitmapBytes(last.rx.frag_total)
    /\ last.op = "read_ack" =>
           /\ last.tx.received = last.rx.ids
           /\ last.tx.missing = (0..last.rx.frag_total) \ last.rx.ids

\* C27: the ack generated for a Complete set of a message with frag_total T
\* has ceil((T + 1) / 8) bytes, in which exactly the bits 0 to T are set
\* (one byte 0x01 for T = 0, 32 bytes 0xFF for T = 255).
CompleteAckHasBitsToTotal ==
    last.op = "generate_ack" =>
        /\ Len(last.tx) = BitmapBytes(last.rx.frag_total)
        /\ \A v \in 0..(8 * Len(last.tx) - 1) :
               BitSet(last.tx[v \div 8 + 1], v % 8) <=> v <= last.rx.frag_total

(***************************************************************************)
(* Properties of the datagrams                                             *)
(***************************************************************************)
\* C28: decoding the datagram produced by encoding a packet yields the
\* packet, for every kind of packet: Fragment with frag_id <= frag_total and
\* any meta and payload, Ack with any seq_id and bitmap, Syn, SynAck,
\* Heartbeat, End(n), Abort(n).
DecodeOfEncodeIsPacket ==
    last.op = "decode" => last.tx = Ok(last.rx)

\* the last fragment of 256, with a payload, has come back from its datagram
LastFragmentRoundTrip ==
    /\ last.op = "decode"
    /\ last.rx.kind = "Fragment"
    /\ last.rx.f.frag_id = 255
    /\ last.rx.f.data /= <<>>
    /\ last.tx = Ok(last.rx)

\* the outcome the rule of C29 gives datagram d: the name of an error or of
\* a kind of packet, with the pair of an InvalidFragLayout
RuleOutcome(d) ==
    IF Len(d) < 10 THEN <<"NotBigEnough">>
    ELSE IF crc32_check(SubSeq(d, 5, Len(d))) /= SubSeq(d, 1, 4) THEN <<"InvalidCrc">>
    ELSE IF <<d[9], d[10]>> = <<255, 0>> THEN <<"Ack">>
    ELSE IF <<d[9], d[10]>> = <<255, 1>> THEN <<"Syn">>
    ELSE IF <<d[9], d[10]>> = <<255, 2>> THEN <<"SynAck">>
    ELSE IF <<d[9], d[10]>> = <<255, 3>> THEN <<"End">>
    ELSE IF <<d[9], d[10]>> = <<255, 4>> THEN <<"Abort">>
    ELSE IF <<d[9], d[10]>> = <<255, 5>> THEN <<"Heartbeat">>
    ELSE IF d[9] <= d[10]
    THEN IF Len(d) < 11 THEN <<"NotBigEnough">>
         ELSE IF d[11] > 2 THEN <<"InvalidFragMeta">>
         ELSE <<"Fragment">>
    ELSE <<"InvalidFragLayout", d[9], d[10]>>

\* the outcome of a decoding, in the same form
OutcomeOf(r) ==
    IF r.ok THEN <<r.v.kind>>
    ELSE IF r.err.kind = "InvalidFragLayout"
    THEN <<"InvalidFragLayout", r.err.frag_id, r.err.frag_total>>
    ELSE <<r.err.kind>>

\* C29: decoding a datagram gives the outcome of this rule, in this order:
\* fewer than 10 bytes, NotBigEnough; checksum mismatch, InvalidCrc; the pairs
\* (255, 0..5), Ack, Syn, SynAck, End, Abort, Heartbeat; frag_id <= frag_total,
\* a Fragment (NotBigEnough under 11 bytes, InvalidFragMeta when byte 10 is
\* above 2); any other pair, InvalidFragLayout(frag_id, frag_total).
DecodeFollowsRule ==
    last.op = "compute_packet" => OutcomeOf(last.tx) = RuleOutcome(last.rx.buffer)

\* a datagram with a right checksum, the pair of a fragment and a byte 10
\* above 2 was refused with InvalidFragMeta
FragMetaRefused ==
    /\ last.op = "compute_packet"
    /\ Len(last.rx.buffer) >= 11
    /\ last.rx.buffer[9] <= last.rx.buffer[10]
    /\ last.rx.buffer[11] > 2
    /\ last.tx = Err(InvalidFragMeta)

(***************************************************************************)
(* Properties of the Complete sets of the combiner                         *)
(***************************************************************************)
\* the combiner of the child of sv holds a Complete set for seq_id
PendingComplete(sv, seq_id) ==
    /\ ClientAddr \in DOMAIN sv.remotes
    /\ seq_id \in DOMAIN sv.remotes[ClientAddr].packet_handler.fragment_combiner.pending_fragments
    /\ ~is_incomplete(sv.remotes[ClientAddr].packet_handler.fragment_combiner.pending_fragments[seq_id])

\* the instant at which the set of seq_id was completed
CompletedAt(sv, seq_id) ==
    sv.remotes[ClientAddr].packet_handler.fragment_combiner.pending_fragments[seq_id].state.at

\* C30: a Complete set stays in the combiner until 20 s have passed since its
\* completion, whatever its meta and the acks sent for it: a set completed by
\* a tick is there after the tick, a Complete set is still there after every
\* step that ends less than 20 s after its completion, and the first tick
\* that ends later deletes it.
CompleteSetKeptTwentySeconds == [][
    \A seq_id \in 0..(MaxMessages - 1) :
        /\ ( /\ last'.op = "server_tick"
             /\ HasChild /\ HasChild'
             /\ SeqIdsIn(last'.rx) = {seq_id}
             /\ DataAdded(Child.events, Child'.events) # <<>> )
               => PendingComplete(server', seq_id)
        /\ (PendingComplete(server, seq_id) /\ now' < CompletedAt(server, seq_id) + 20000)
               => PendingComplete(server', seq_id)
        /\ ( /\ PendingComplete(server, seq_id)
             /\ last'.op = "server_tick"
             /\ now' >= CompletedAt(server, seq_id) + 20000 )
               => ~PendingComplete(server', seq_id)
    ]_vars

(***************************************************************************)
(* Properties of the combiner on its own                                   *)
(***************************************************************************)
\* the sets of the combiner of CombinerSpec
Pending == last.tx.combiner.pending_fragments

\* no fragment has arrived for set fs after the ticks that followed the
\* arrival counted by acks_sent_count (every arrival resets the count of an
\* Incomplete set; a Complete set counts from its completion)
CountsFromLastArrival(fs) ==
    is_incomplete(fs) \/ fs.last_received_iteration <= fs.state.at

\* C31: between two arrivals of fragments for a seq_id the ticks of the
\* combiner emit at most 2 acks for the set, Incomplete or Complete, however
\* many ticks run.
AtMostTwoAcksBetweenArrivals ==
    ~last.tx.panic =>
        \A s \in DOMAIN Pending :
            CountsFromLastArrival(Pending[s]) => Pending[s].acks_sent_count <= 2

\* C32: in every reachable state of the combiner the fragments stored in one
\* Incomplete set carry the same frag_total and every stored frag_id is at
\* most that frag_total: a fragment with another frag_total is never stored
\* alongside the others.
IncompleteSetHasOneFragTotal ==
    ~last.tx.panic =>
        \A s \in DOMAIN Pending :
            is_incomplete(Pending[s]) =>
                /\ all_equal_frag_total(Pending[s].state.fragments)
                /\ \A k \in DOMAIN Pending[s].state.fragments :
                       /\ Pending[s].state.fragments[k].frag_id = k
                       /\ k <= Pending[s].state.fragments[k].frag_total

\* C33: a set that at any time holds two fragments with differing frag_total
\* never produces an out-message: it is deleted before any message is
\* emitted for its seq_id.
MixedSetEmitsNothing == [][
    \A k \in DOMAIN last'.tx.out : last'.tx.out[k].seq_id \notin last.tx.mixed
    ]_vars

\* C34: pushing a fragment whose seq_id has a Complete set drops the fragment:
\* the set stays Complete as it was, no fragment is stored, no out-message is
\* added and no other set changes (the push only stamps the set with the
\* iteration of the arrival).
PushOnCompleteDropsFragment == [][
    ( /\ last'.op = "push"
      /\ last'.rx.seq_id \in DOMAIN Pending
      /\ ~is_incomplete(Pending[last'.rx.seq_id]) )
        => /\ ~last'.tx.panic
           /\ last'.tx.out = <<>>
           /\ Pending' = [Pending EXCEPT ![last'.rx.seq_id].last_received_iteration = now]
    ]_vars

\* a fragment was pushed at an iteration after the completion of its set,
\* and the set is Complete
PushedOnComplete ==
    /\ last.op = "push"
    /\ last.rx.seq_id \in DOMAIN Pending
    /\ ~is_incomplete(Pending[last.rx.seq_id])
    /\ Pending[last.rx.seq_id].last_received_iteration > Pending[last.rx.seq_id].state.at
    /\ last.tx.out = <<>>

\* C38: for any sequence of push and tick calls with fragments that satisfy
\* frag_id <= frag_total (frag_totals and metas possibly inconsistent within
\* one seq_id) the combiner never fails: generate_ack never writes outside
\* the bitmap nor reads an empty Incomplete set, and completing a set trips
\* no assertion.
CombinerNeverFails == ~last.tx.panic

(***************************************************************************)
(* Properties of the sent-data tracker on its own                          *)
(***************************************************************************)
TrackedSets == last.tx.tracker.sets

\* the frag ids among the packets the last call handed to the socket
SentFragIds(tx) == {tx.packets[k].f.frag_id : k \in DOMAIN tx.packets}

\* the set is due at instant t: its resend delay has passed, or an ack came
\* since the last transmission and the oldest such ack is 4/5 of the delay
\* old or the newest 3/5 of it
DueAt(set, t) ==
    \/ t - set.last_sent_packet >= resend_delay(set.message_priority)
    \/ /\ set.unanswered_ack /= NoUnanswered
       /\ \/ 5 * (t - set.unanswered_ack[1]) >= 4 * resend_delay(set.message_priority)
          \/ 5 * (t - set.unanswered_ack[2]) >= 3 * resend_delay(set.message_priority)

\* C35: a tick of the tracker puts a registered set that is neither expired
\* nor complete through a retransmission exactly when it is due: then the
\* fragments its stored ack misses (all of them without an ack) are sent,
\* last_sent_packet becomes the instant of the tick and the pair of
\* unanswered acks is cleared; otherwise nothing is sent and the set is
\* left as it was.
ResendsExactlyWhenDue ==
    [][(/\ last'.op = "next_tick"
        /\ 0 \in DOMAIN TrackedSets
        /\ ~is_expired(TrackedSets[0], now')
        /\ TrackedSets[0].complete_since = None)
       => /\ 0 \in DOMAIN last'.tx.tracker.sets
          /\ IF DueAt(TrackedSets[0], now')
             THEN /\ last'.tx.tracker.sets[0].last_sent_packet = now'
                  /\ last'.tx.tracker.sets[0].unanswered_ack = NoUnanswered
                  /\ SentFragIds(last'.tx) = resend_frag_ids(TrackedSets[0])
             ELSE /\ last'.tx.tracker.sets[0] = TrackedSets[0]
                  /\ last'.tx.packets = <<>>]_vars

\* a tick retransmitted before the resend delay had passed, on account of
\* the acks received
ResentOnAck ==
    /\ last.op = "next_tick"
    /\ 0 \in DOMAIN TrackedSets
    /\ last.tx.packets /= <<>>
    /\ TrackedSets[0].last_sent_packet = now
    /\ now < resend_delay(TrackedSets[0].message_priority)

\* C36: a tick never retransmits a fragment that some ack received for the
\* message reported as received, in whatever order the acks arrived; and
\* once an ack reporting every fragment was received, the stored ack is
\* such an ack.
AckedFragmentNeverResent ==
    /\ last.op = "next_tick" => SentFragIds(last.tx) \cap last.tx.acked = {}
    /\ (last.tx.complete_ack /= None /\ 0 \in DOMAIN TrackedSets)
          => ReportedBy(TrackedSets[0].last_received_ack.ack, TrackedSets[0].frag_total)
                = 0..TrackedSets[0].frag_total

\* the result of is_seq_id_received for the message
Received(tx) == is_seq_id_received(tx.tracker, 0)

\* C37: from one call of the tracker to the next the result of
\* is_seq_id_received for a reliable message never goes from true to false
\* nor from not tracked to anything else; it is true only once an ack
\* reporting every fragment was received; it becomes not tracked only when
\* the set is expired or 5 s after that ack was received; and for a
\* Forgettable message it is not tracked from the start.
ReceivedGoesForward ==
    [][/\ last'.op \in {"receive_ack", "next_tick"}
          => /\ Received(last.tx) = "Ok(true)" => Received(last'.tx) /= "Ok(false)"
             /\ Received(last.tx) = "Err" => Received(last'.tx) = "Err"
             /\ Received(last'.tx) = "Ok(true)" => last'.tx.complete_ack /= None
             /\ (Received(last.tx) /= "Err" /\ Received(last'.tx) = "Err")
                   => \/ is_expired(TrackedSets[0], now')
                      \/ /\ last.tx.complete_ack /= None
                         /\ now' - last.tx.complete_ack >= SEQ_DATA_CLEANUP_DELAY
       /\ last'.op = "send_data"
          => (Received(last'.tx) = "Err") = ~has_ack(last'.rx[2])]_vars

(***************************************************************************)
(* Properties of the heartbeats                                            *)
(***************************************************************************)
TimedOut(s) == s.status.kind = "TimeoutError"

\* C39 as stated: whatever the delays of the two sides, neither peer enters
\* TimeoutError.
NeverTimesOut ==
    /\ ~TimedOut(client.sock)
    /\ \A a \in DOMAIN server.remotes : ~TimedOut(server.remotes[a])

\* C39: when the two sides have the same timeout_delay, neither peer
\* enters TimeoutError (a child is dropped by the server only after it has
\* finished).
NeverTimesOutSameDelay ==
    (HasChild /\ Child.timeout_delay = client.sock.timeout_delay) => NeverTimesOut

\* both peers are connected a full timeout_delay after the handshake,
\* having exchanged nothing but heartbeats
AliveOnHeartbeats ==
    /\ HasChild /\ is_connected(Child.status) /\ is_connected(client.sock.status)
    /\ Child.timeout_delay = client.sock.timeout_delay
    /\ now > client.sock.timeout_delay
    /\ client.sock.next_local_seq_id = 0
    /\ Child.last_received_message > 0
    /\ client.sock.last_received_message > 0

(***************************************************************************)
(* Properties of the ping handler on its own                               *)
(***************************************************************************)
\* the handler has an outstanding entry younger than 5 s at instant t
FreshEntry(ph, t) ==
    ph.waiting_ping /= NoPing /\ t - ph.waiting_ping.time < 5000

\* C40: ping leaves the handler as it was when an entry younger than 5 s is
\* outstanding, and stores (seq_id, now) otherwise; pong for the outstanding
\* seq_id clears the entry and stores a round trip, the elapsed time when
\* that is below 5 s; any other pong changes nothing; and the stored round
\* trip is below 5000 ms.
PingFollowsRule ==
    [][/\ last'.op = "ping"
          => IF FreshEntry(last.tx, now')
             THEN last'.tx = last.tx
             ELSE /\ last'.tx.waiting_ping = [seq_id |-> last'.rx, time |-> now']
                  /\ last'.tx.current_ping = last.tx.current_ping
       /\ last'.op = "pong"
          => IF last.tx.waiting_ping /= NoPing /\ last.tx.waiting_ping.seq_id = last'.rx
             THEN /\ last'.tx.waiting_ping = NoPing
                  /\ last'.tx.current_ping \in 0..4999
                  /\ FreshEntry(last.tx, now')
                        => last'.tx.current_ping = now' - last.tx.waiting_ping.time
             ELSE last'.tx = last.tx
       /\ last'.tx.current_ping < 5000]_vars

\* a ping found an entry of another seq_id, one millisecond short of 5 s,
\* and left it
PingIgnored ==
    /\ last.op = "ping"
    /\ last.tx.waiting_ping /= NoPing
    /\ last.tx.waiting_ping.seq_id /= last.rx
    /\ now - last.tx.waiting_ping.time = 4999

====
